---- MODULE Spec2Model ----
(***************************************************************************)
(* Receipt pipeline of the KiranaPlus backend:                             *)
(*   reconstruct_receipt_lines   (backend/ocr_service.py)                  *)
(*   extract_items_from_text     (backend/routes/ocr_routes.py)            *)
(*   upload_receipt              (backend/routes/ocr_routes.py)            *)
(*   get_inventory_items_from_db (backend/utils.py)                        *)
(*   fuzzy_match_inventory_item  (backend/ocr_service.py)                  *)
(*                                                                         *)
(* Python values are modelled as follows.                                  *)
(*   str            a TLA+ string; a character is a string of length 1     *)
(*   None / value   the sequences <<>> and <<value>> (None, Some)          *)
(*   float y        an integer number of 1/YScale pixels                   *)
(*   confidence     an integer number of 1/(100 * ConfDen)                 *)
(*   list, tuple    a sequence                                             *)
(***************************************************************************)
EXTENDS Integers, Sequences, FiniteSets, TLC

VARIABLES
    \* reconstruct_receipt_lines
    ocr_results,      \* the argument: sequence of [bbox, text, conf]
    sorted_results,   \* local sorted_results
    lines,            \* local lines: sequence of <<text, confidence>>
    current_line,     \* local current_line: sequence of <<text, confidence>>
    current_y,        \* local current_y: None or Some(y)
    ri,               \* position of the for loop in sorted_results
    rl_pc,            \* "idle" | "call" | "loop" | "done" | "raised"
    \* get_inventory_items_from_db
    db,               \* the inventory collection: [connected, raises, items]
    cache,            \* utils.cache: None or Some(cache['items'])
    \* extract_items_from_text
    texts_with_confidence,  \* the argument: sequence of <<text, confidence>>
    inventory_items,  \* local inventory_items
    items,            \* local items
    ti,               \* position of the for loop in texts_with_confidence
    ex_pc,            \* "idle" | "call" | "loop" | "done"
    \* upload_receipt
    request,          \* the request and what its file operations will do
    reconstructed_lines,   \* local reconstructed_lines
    individual_fragments,  \* local individual_fragments
    items_from_lines, \* local items_from_lines
    response,         \* None or Some([status, error, items, ...])
    up_pc,            \* "idle" | "start" | "ocr" | "reconstruct" | "lines" | "fragments" | "done"
    \* fuzzy_match_inventory_item
    extracted_name,   \* the argument extracted_name
    fm_inventory_items,  \* the argument inventory_items
    best_match,       \* local best_match, the value returned: None or Some(match)
    best_score,       \* local best_score: a float
    threshold,        \* the argument threshold: a float
    fi,               \* position of the for loop in inventory_items
    fm_pc,            \* "idle" | "call" | "loop" | "done" | "raised"
    \* the cleaning steps of the two matchers applied to a text
    cl_input,         \* the text supplied
    cl_outputs,       \* the outputs of the successive applications
    cl_pc,            \* "idle" | "line" | "text"
    \* concurrent upload_receipt requests and the upload folder
    fs,               \* the files: path -> None or Some(content)
    req,              \* request id -> [filename, pc, img, ocr_image, status]
    \* levenshtein_distance called on two strings, in both orders
    lv_s1,            \* the first string
    lv_s2,            \* the second string
    lv_forward,       \* None or Some(levenshtein_distance(lv_s1, lv_s2))
    lv_backward,      \* None or Some(levenshtein_distance(lv_s2, lv_s1))
    \* generate_unique_kirana_id
    ki_collection,    \* the kiranaId values of the documents of the collection
    ki_attempts,      \* local attempts
    ki_returned,      \* None or Some(the value returned)
    ki_pc,            \* "idle" | "loop" | "done"
    \* the collections create-bill and save-receipt-items write
    st_connected,     \* the collections can be got
    products,         \* the _id values of the documents of the inventory
    stockQuantity,    \* _id -> stockQuantity of the document
    loyalty_points,   \* customer _id -> loyalty_points of the user document
    bills,            \* the documents of the bills collection
    receipts,         \* the documents of the receipts collection
    \* concurrent create_bill requests
    cb,               \* request id -> the request, its locals and its response
    \* a save_receipt_items request
    sr,               \* the request, its locals and its response
    \* utils.cache as a TTLCache, and concurrent get_inventory_items_from_db calls
    tc_now,           \* the cache's timer, in seconds
    tc_expires,       \* None or Some(the time at which cache['items'] expires)
    tc_call           \* caller -> the position and the outcome of its call

rl_vars == <<ocr_results, sorted_results, lines, current_line, current_y, ri, rl_pc>>
db_vars == <<db, cache>>
ex_vars == <<texts_with_confidence, inventory_items, items, ti, ex_pc>>

up_vars == <<request, reconstructed_lines, individual_fragments, items_from_lines,
             response, up_pc>>

fm_vars == <<extracted_name, fm_inventory_items, threshold, best_match, best_score, fi, fm_pc>>

cl_vars == <<cl_input, cl_outputs, cl_pc>>

cu_vars == <<fs, req>>

lv_vars == <<lv_s1, lv_s2, lv_forward, lv_backward>>

ki_vars == <<ki_collection, ki_attempts, ki_returned, ki_pc>>

st_vars == <<st_connected, products, stockQuantity, loyalty_points, bills, receipts>>

cb_vars == <<cb>>

sr_vars == <<sr>>

tc_vars == <<tc_now, tc_expires, tc_call>>

vars == <<rl_vars, db_vars, ex_vars, up_vars, fm_vars, cl_vars, cu_vars, lv_vars, ki_vars, st_vars, cb_vars, sr_vars, tc_vars>>

--------------------------------------------------------------------------
(* Option values *)
None == <<>>
Some(v) == <<v>>
IsNone(o) == Len(o) = 0
Val(o) == o[1]

Min2(a, b) == IF a <= b THEN a ELSE b
Max2(a, b) == IF a >= b THEN a ELSE b
Abs(a) == IF a < 0 THEN 0 - a ELSE a

RECURSIVE Pow2(_)
Pow2(n) == IF n = 0 THEN 1 ELSE 2 * Pow2(n - 1)

RECURSIVE Factorial(_)
Factorial(n) == IF n = 0 THEN 1 ELSE n * Factorial(n - 1)

--------------------------------------------------------------------------
(* Bounds of the model *)
MaxFrags == 3

\* current_y is halved at most once per fragment after avg_y's own halving
YScale == Pow2(MaxFrags)
\* an average over at most MaxFrags confidences given in hundredths
ConfDen == Factorial(MaxFrags)

--------------------------------------------------------------------------
(* reconstruct_receipt_lines, ocr_service.py 119-155 *)

y_tolerance == 20

\* a detection (bbox, text, confidence); bbox is a sequence of <<x, y>> points
Fragment(bbox, text, conf) == [bbox |-> bbox, text |-> text, conf |-> conf]

\* key=lambda x: (x[0][0][1], x[0][0][0]) : (y, x) of the first corner
SortKey(r) == <<r.bbox[1][2], r.bbox[1][1]>>

KeyLE(k1, k2) == \/ k1[1] < k2[1]
                 \/ k1[1] = k2[1] /\ k1[2] <= k2[2]

\* sorted() is stable: r goes after every element whose key is <= its own
RECURSIVE InsertByKey(_, _)
InsertByKey(s, r) ==
    IF s = <<>> THEN <<r>>
    ELSE IF KeyLE(SortKey(Head(s)), SortKey(r))
         THEN <<Head(s)>> \o InsertByKey(Tail(s), r)
         ELSE <<r>> \o s

RECURSIVE SortedByKey(_)
SortedByKey(s) ==
    IF s = <<>> THEN <<>>
    ELSE InsertByKey(SortedByKey(SubSeq(s, 1, Len(s) - 1)), s[Len(s)])

\* the key raises IndexError on a polygon without a first corner
SortRaises(s) == \E k \in 1..Len(s) : Len(s[k].bbox) < 1

\* avg_y = (bbox[0][1] + bbox[2][1]) / 2, in 1/YScale pixels
AvgYRaises(r) == Len(r.bbox) < 3
AvgY(r) == ((r.bbox[1][2] + r.bbox[3][2]) * YScale) \div 2

\* abs(avg_y - current_y) <= y_tolerance
MutSameLineStrict(cy, avg_y) == IsNone(cy) \/ Abs(avg_y - Val(cy)) < y_tolerance * YScale
SameLine(cy, avg_y) == IsNone(cy) \/ Abs(avg_y - Val(cy)) <= y_tolerance * YScale

MutNextYAnchor(cy, avg_y) == IF IsNone(cy) THEN avg_y ELSE Val(cy)
MutNextYLatest(cy, avg_y) == avg_y
\* current_y = avg_y if current_y is None else (current_y + avg_y) / 2
NextY(cy, avg_y) == IF IsNone(cy) THEN avg_y ELSE (Val(cy) + avg_y) \div 2

\* ' '.join([text for text, _ in current_line])
RECURSIVE JoinTexts(_)
JoinTexts(cl) ==
    IF cl = <<>> THEN ""
    ELSE IF Len(cl) = 1 THEN cl[1][1]
    ELSE cl[1][1] \o " " \o JoinTexts(Tail(cl))

RECURSIVE SumConf(_)
SumConf(cl) == IF cl = <<>> THEN 0 ELSE cl[1][2] + SumConf(Tail(cl))

MutCloseLineLastConfidence(cl) == <<JoinTexts(cl), cl[Len(cl)][2]>>
\* (combined_text, avg_confidence) of a non-empty current_line
CloseLine(cl) == <<JoinTexts(cl), SumConf(cl) \div Len(cl)>>

\* sorted_results = sorted(ocr_results, key=...)
RL_Sort ==
    /\ rl_pc = "call"
    /\ IF SortRaises(ocr_results)
       THEN /\ rl_pc' = "raised"
            /\ UNCHANGED <<sorted_results, lines, current_line, current_y, ri>>
       ELSE /\ sorted_results' = SortedByKey(ocr_results)
            /\ lines' = <<>>
            /\ current_line' = <<>>
            /\ current_y' = None
            /\ ri' = 1
            /\ rl_pc' = "loop"
    /\ UNCHANGED <<ocr_results, db_vars, ex_vars, up_vars, fm_vars, cl_vars, cu_vars, lv_vars, ki_vars, st_vars, cb_vars, sr_vars, tc_vars>>

\* one iteration of "for result in sorted_results"
RL_Step ==
    /\ rl_pc = "loop"
    /\ ri <= Len(sorted_results)
    /\ LET result == sorted_results[ri]
           avg_y == AvgY(result)
           entry == <<result.text, result.conf>>
       IN IF AvgYRaises(result)
          THEN /\ rl_pc' = "raised"
               /\ UNCHANGED <<lines, current_line, current_y, ri>>
          ELSE /\ IF SameLine(current_y, avg_y)
                  THEN /\ current_line' = Append(current_line, entry)
                       /\ current_y' = Some(NextY(current_y, avg_y))
                       /\ lines' = lines
                  ELSE /\ lines' = IF current_line # <<>>
                                   THEN Append(lines, CloseLine(current_line))
                                   ELSE lines
                       /\ current_line' = <<entry>>
                       /\ current_y' = Some(avg_y)
               /\ ri' = ri + 1
               /\ rl_pc' = "loop"
    /\ UNCHANGED <<ocr_results, sorted_results, db_vars, ex_vars, up_vars, fm_vars, cl_vars, cu_vars, lv_vars, ki_vars, st_vars, cb_vars, sr_vars, tc_vars>>

MutReturnWithoutLastLine ==
    /\ rl_pc = "loop"
    /\ ri > Len(sorted_results)
    /\ lines' = lines
    /\ rl_pc' = "done"
    /\ UNCHANGED <<ocr_results, sorted_results, current_line, current_y, ri>>
    /\ UNCHANGED <<db_vars, ex_vars, up_vars, fm_vars, cl_vars, cu_vars, lv_vars, ki_vars, st_vars, cb_vars, sr_vars, tc_vars>>
\* after the loop: "Don't forget the last line", return lines
RL_Return ==
    /\ rl_pc = "loop"
    /\ ri > Len(sorted_results)
    /\ lines' = IF current_line # <<>>
                THEN Append(lines, CloseLine(current_line))
                ELSE lines
    /\ rl_pc' = "done"
    /\ UNCHANGED <<ocr_results, sorted_results, current_line, current_y, ri>>
    /\ UNCHANGED <<db_vars, ex_vars, up_vars, fm_vars, cl_vars, cu_vars, lv_vars, ki_vars, st_vars, cb_vars, sr_vars, tc_vars>>

--------------------------------------------------------------------------
(* Python str operations used by extract_items_from_text *)

LowerChars == "abcdefghijklmnopqrstuvwxyz"
UpperChars == "ABCDEFGHIJKLMNOPQRSTUVWXYZ"
DigitChars == "0123456789"

CharAt(s, i) == SubSeq(s, i, i)
CharsOf(s) == { CharAt(s, i) : i \in 1..Len(s) }

LowerSet == CharsOf(LowerChars)
UpperSet == CharsOf(UpperChars)
DigitSet == CharsOf(DigitChars)
\* the characters \s matches among those the model draws texts from
SpaceSet == {" ", "\t"}
\* \w (and so the complement of \b's boundary) on lowercased ASCII text
WordSet == LowerSet \cup UpperSet \cup DigitSet \cup {"_"}

IndexOf(c, s) == CHOOSE i \in 1..Len(s) : CharAt(s, i) = c

\* The strings of this module are ASCII. "^" stands for U+0130, the capital
\* I with a dot above, the one character whose lower case is longer than
\* itself: 'i' followed by U+0307, the combining dot, which "~" stands for
DottedCapitalI == "^"
CombiningDot == "~"

LowerChar(c) ==
    IF c \in UpperSet THEN CharAt(LowerChars, IndexOf(c, UpperChars))
    ELSE IF c = DottedCapitalI THEN "i" \o CombiningDot
    ELSE c
UpperChar(c) == IF c \in LowerSet THEN CharAt(UpperChars, IndexOf(c, LowerChars)) ELSE c

\* str.lower()
RECURSIVE Lower(_)
Lower(s) == IF s = "" THEN "" ELSE LowerChar(Head(s)) \o Lower(Tail(s))

\* str.title(): a cased character is upper-cased when it follows an uncased
\* one (or starts the string) and lower-cased otherwise
RECURSIVE TitleFrom(_, _)
TitleFrom(s, prev_cased) ==
    IF s = "" THEN ""
    ELSE LET c == Head(s)
             cased == c \in LowerSet \cup UpperSet
         IN (IF ~cased THEN c
             ELSE IF prev_cased THEN LowerChar(c) ELSE UpperChar(c))
            \o TitleFrom(Tail(s), cased)

Title(s) == TitleFrom(s, FALSE)

\* str.strip()
RECURSIVE LStrip(_)
LStrip(s) == IF s # "" /\ Head(s) \in SpaceSet THEN LStrip(Tail(s)) ELSE s

RECURSIVE RStrip(_)
RStrip(s) ==
    IF s # "" /\ CharAt(s, Len(s)) \in SpaceSet
    THEN RStrip(SubSeq(s, 1, Len(s) - 1)) ELSE s

Strip(s) == RStrip(LStrip(s))

\* sub in s
Contains(s, sub) ==
    \E i \in 1..(Len(s) - Len(sub) + 1) : SubSeq(s, i, i + Len(sub) - 1) = sub

AllIn(s, set) == \A i \in 1..Len(s) : CharAt(s, i) \in set

\* re.sub(r'[...]', '', s): the characters of drop removed
RECURSIVE DropChars(_, _)
DropChars(s, drop) ==
    IF s = "" THEN ""
    ELSE (IF Head(s) \in drop THEN "" ELSE Head(s)) \o DropChars(Tail(s), drop)

\* re.sub(r'[^...]', '', s): only the characters of keep kept
RECURSIVE KeepChars(_, _)
KeepChars(s, keep) ==
    IF s = "" THEN ""
    ELSE (IF Head(s) \in keep THEN Head(s) ELSE "") \o KeepChars(Tail(s), keep)

\* re.sub(r'[...]', rep, s): every character of from replaced by rep
RECURSIVE ReplaceChars(_, _, _)
ReplaceChars(s, from, rep) ==
    IF s = "" THEN ""
    ELSE (IF Head(s) \in from THEN rep ELSE Head(s)) \o ReplaceChars(Tail(s), from, rep)

\* str(int(digits) * 1000)
RECURSIVE StripZeros(_)
StripZeros(d) == IF d # "" /\ Head(d) = "0" THEN StripZeros(Tail(d)) ELSE d

Times1000(digits) == IF StripZeros(digits) = "" THEN "0" ELSE StripZeros(digits) \o "000"

\* a maximal run of word characters: \b(\d+)k\b matches it when it is
\* digits followed by k (the lookahead (?![0-9]) is implied by the \b)
ExpandKRun(run) ==
    IF /\ Len(run) >= 2
       /\ CharAt(run, Len(run)) = "k"
       /\ AllIn(SubSeq(run, 1, Len(run) - 1), DigitSet)
    THEN Times1000(SubSeq(run, 1, Len(run) - 1))
    ELSE run

\* re.sub(r'\b(\d+)k\b(?![0-9])', lambda m: str(int(m.group(1)) * 1000), s)
RECURSIVE ExpandKFrom(_, _)
ExpandKFrom(s, run) ==
    IF s = "" THEN ExpandKRun(run)
    ELSE IF Head(s) \in WordSet THEN ExpandKFrom(Tail(s), run \o Head(s))
    ELSE ExpandKRun(run) \o Head(s) \o ExpandKFrom(Tail(s), "")

ExpandK(s) == ExpandKFrom(s, "")

\* re.sub(r'\s+', ' ', s)
RECURSIVE CollapseSpaces(_, _)
CollapseSpaces(s, in_space) ==
    IF s = "" THEN ""
    ELSE IF Head(s) \in SpaceSet
         THEN (IF in_space THEN "" ELSE " ") \o CollapseSpaces(Tail(s), TRUE)
         ELSE Head(s) \o CollapseSpaces(Tail(s), FALSE)

\* str.split(' ')
RECURSIVE SplitOn(_, _, _)
SplitOn(s, sep, cur) ==
    IF s = "" THEN <<cur>>
    ELSE IF Head(s) = sep THEN <<cur>> \o SplitOn(Tail(s), sep, "")
    ELSE SplitOn(Tail(s), sep, cur \o Head(s))

\* ' '.join(tokens)
RECURSIVE JoinSpace(_)
JoinSpace(t) ==
    IF t = <<>> THEN ""
    ELSE IF Len(t) = 1 THEN t[1]
    ELSE t[1] \o " " \o JoinSpace(Tail(t))

--------------------------------------------------------------------------
(* levenshtein_distance, ocr_routes.py 15-30 *)

\* current_row after the inner loop: cur holds the entries built so far,
\* i1 = i + 1
RECURSIVE MutFillRowEqualCostsOne(_, _, _, _)
MutFillRowEqualCostsOne(previous_row, c1, s2, cur) ==
    LET j == Len(cur)
    IN IF j > Len(s2) THEN cur
       ELSE LET insertions == previous_row[j + 1] + 1
                deletions == cur[j] + 1
                substitutions == previous_row[j] + 1
            IN MutFillRowEqualCostsOne(previous_row, c1, s2,
                       Append(cur, Min2(Min2(insertions, deletions), substitutions)))
RECURSIVE FillRow(_, _, _, _)
FillRow(previous_row, c1, s2, cur) ==
    LET j == Len(cur)
    IN IF j > Len(s2) THEN cur
       ELSE LET insertions == previous_row[j + 1] + 1
                deletions == cur[j] + 1
                substitutions == previous_row[j] + (IF c1 # CharAt(s2, j) THEN 1 ELSE 0)
            IN FillRow(previous_row, c1, s2,
                       Append(cur, Min2(Min2(insertions, deletions), substitutions)))

\* previous_row after the rows i..Len(s1) of the outer loop
RECURSIVE LevRows(_, _, _, _)
LevRows(s1, s2, i, previous_row) ==
    IF i > Len(s1) THEN previous_row
    ELSE LET current_row == FillRow(previous_row, CharAt(s1, i), s2, <<i>>)
         IN IF Len(current_row) = Len(s2) + 1
            THEN LevRows(s1, s2, i + 1, current_row)
            ELSE <<>>

RECURSIVE levenshtein_distance(_, _)
levenshtein_distance(s1, s2) ==
    IF Len(s1) < Len(s2) THEN levenshtein_distance(s2, s1)
    ELSE IF Len(s2) = 0 THEN Len(s1)
    ELSE LET last == LevRows(s1, s2, 1, [j \in 1..(Len(s2) + 1) |-> j - 1])
         IN last[Len(last)]

--------------------------------------------------------------------------
(* get_local_unit_fallback / get_intelligent_unit_fallback,
   ocr_service.py 157-261 *)

AnyKeyword(s, keywords) == \E w \in keywords : Contains(s, w)

liquid_keywords == {"oil", "milk", "water", "juice", "vinegar", "sauce", "syrup",
                    "honey", "ghee", "coconut oil", "mustard oil", "olive oil"}
liquid_pack_words == {"bottle", "can", "pack", "ltr", "litre", "liter"}
bulk_items == {"rice", "wheat", "flour", "sugar", "salt", "dal", "lentils",
               "quinoa", "oats", "semolina", "besan", "atta", "maida"}
produce_keywords == {"potato", "onion", "tomato", "carrot", "apple", "banana",
                     "orange", "mango", "grape", "spinach", "cabbage", "cauliflower",
                     "brinjal", "capsicum", "beans", "peas", "okra", "cucumber"}
spice_keywords == {"masala", "powder", "spice", "cumin", "coriander", "turmeric",
                   "chili", "pepper", "cardamom", "cinnamon", "cloves", "garam masala"}
packaged_keywords == {"biscuit", "chocolate", "candy", "chips", "noodles",
                      "bread", "cake", "cookie", "wafer"}
countable_keywords == {"egg", "apple", "orange", "banana", "lemon", "coconut",
                       "bottle", "can", "pack"}

get_local_unit_fallback(item_name) ==
    LET item_lower == Lower(item_name)
    IN IF AnyKeyword(item_lower, liquid_keywords)
       THEN (IF AnyKeyword(item_lower, liquid_pack_words) THEN "ltr" ELSE "ml")
       ELSE IF AnyKeyword(item_lower, bulk_items) THEN "kg"
       ELSE IF AnyKeyword(item_lower, produce_keywords) THEN "kg"
       ELSE IF AnyKeyword(item_lower, spice_keywords) THEN "g"
       ELSE IF AnyKeyword(item_lower, packaged_keywords) THEN "packet"
       ELSE IF AnyKeyword(item_lower, countable_keywords) THEN "pc"
       ELSE "pc"

gemini_valid_units == {"kg", "g", "ltr", "ml", "pc", "bottle", "packet"}

\* reply: None when there is no gemini_model, the call raises or the
\* response is empty; otherwise Some(response.text.strip().lower())
get_intelligent_unit_fallback(item_name, reply) ==
    IF ~IsNone(reply) /\ Val(reply) \in gemini_valid_units
    THEN Val(reply)
    ELSE get_local_unit_fallback(item_name)

--------------------------------------------------------------------------
(* extract_items_from_text, ocr_routes.py 32-148 *)

valid_units == {"kg", "g", "pc", "pcs", "gram", "grams", "piece", "pieces",
                "ltr", "litre", "liter", "ml", "c", "cup", "cups", "bottle", "bottles",
                "k6", "k0", "gu"}

unit_mapping_keys == {"gm", "gms", "kgs", "k6", "k0", "gu", "l", "liters", "litres",
                      "pcs", "pieces"}

unit_mapping(u) ==
    CASE u \in {"gm", "gms", "gu"} -> "g"
      [] u \in {"kgs", "k6", "k0"} -> "kg"
      [] u \in {"l", "liters", "litres"} -> "ltr"
      [] u \in {"pcs", "pieces"} -> "pc"

\* the minimum confidence of a line, in hundredths
min_confidence == 25

\* the symbols replaced by ' x ' (the source also lists U+00D7 and U+2013)
SeparatorSet == {"*", "/", "-"}

MutCleanLineNoStrip(line) ==
    LET l1 == DropChars(line, {"<", ">"})
        l2 == DropChars(l1, {":"})
        l3 == ReplaceChars(l2, SeparatorSet, " x ")
        l4 == KeepChars(l3, LowerSet \cup DigitSet \cup SpaceSet \cup {"."})
        l5 == ExpandK(l4)
    IN CollapseSpaces(l5, FALSE)
\* lines 58-63 applied to line = text.lower().strip()
CleanLine(line) ==
    LET l1 == DropChars(line, {"<", ">"})
        l2 == DropChars(l1, {":"})
        l3 == ReplaceChars(l2, SeparatorSet, " x ")
        l4 == KeepChars(l3, LowerSet \cup DigitSet \cup SpaceSet \cup {"."})
        l5 == ExpandK(l4)
    IN Strip(CollapseSpaces(l5, FALSE))

\* the character classes of the patterns' groups
IsNameToken(t) == t # "" /\ AllIn(t, LowerSet)
IsQuantityToken(t) == t # "" /\ AllIn(t, DigitSet \cup {"."})
IsUnitToken(t) == t # "" /\ AllIn(t, LowerSet \cup DigitSet)

AllNameTokens(t, n) == n >= 1 /\ \A k \in 1..n : IsNameToken(t[k])

\* re.match(patterns[i - 1], line) on a cleaned line, whose whitespace is
\* single spaces between tokens: None, or Some of (group(1).strip(), unit_part).
\* The lazy name group takes the tokens before the fixed tail of the pattern.
PatternMatch(i, line) ==
    LET t == SplitOn(line, " ", "")
        n == Len(t)
        m(name_count, unit) == Some(<<JoinSpace(SubSeq(t, 1, name_count)), unit>>)
    IN CASE i = 1 ->
              IF /\ n >= 4 /\ AllNameTokens(t, n - 3) /\ t[n - 2] = "x"
                 /\ IsQuantityToken(t[n - 1]) /\ IsUnitToken(t[n])
              THEN m(n - 3, t[n]) ELSE None
         [] i = 2 ->
              IF /\ n >= 3 /\ AllNameTokens(t, n - 2) /\ t[n - 1] = "x"
                 /\ IsQuantityToken(t[n])
              THEN m(n - 2, "") ELSE None
         [] i = 3 ->
              IF /\ n >= 3 /\ AllNameTokens(t, n - 2)
                 /\ IsQuantityToken(t[n - 1]) /\ IsUnitToken(t[n])
              THEN m(n - 2, t[n]) ELSE None
         [] i = 4 ->
              IF /\ n >= 2 /\ AllNameTokens(t, n - 1) /\ IsQuantityToken(t[n])
              THEN m(n - 1, "") ELSE None
         [] i = 5 ->
              IF /\ n = 4 /\ IsNameToken(t[1]) /\ t[2] = "x"
                 /\ IsQuantityToken(t[3]) /\ IsUnitToken(t[4])
              THEN m(1, t[4]) ELSE None
         [] i = 6 ->
              IF AllNameTokens(t, n) THEN m(n, "") ELSE None

NumPatterns == 6

\* line 83: the pattern is passed over when the name has no letter or is
\* shorter than 2
NameRejected(name_part) ==
    ~(\E k \in 1..Len(name_part) : CharAt(name_part, k) \in LowerSet) \/ Len(name_part) < 2

\* the first pattern, from i on, that matches with an accepted name:
\* None, or Some of (name_part, unit_part)
RECURSIVE FirstPattern(_, _)
FirstPattern(i, line) ==
    IF i > NumPatterns THEN None
    ELSE LET mt == PatternMatch(i, line)
         IN IF ~IsNone(mt) /\ ~NameRejected(Val(mt)[1]) THEN mt
            ELSE FirstPattern(i + 1, line)

\* a value that is not a str (a JSON number stored by add-item), and the
\* marker of a key the document does not have
NotStr == "<number>"
Absent == "<absent>"
IsStr(v) == v # NotStr /\ v # Absent
\* dict.get(key, default)
Get(v, default) == IF v = Absent THEN default ELSE v

\* an inventory document as projected by get_inventory_items_from_db
CatalogEntry(id, itemId, itemName, brand, category, unitSize) ==
    [id |-> id, itemId |-> itemId, itemName |-> itemName, brand |-> brand,
     category |-> category, unitSize |-> unitSize,
     sellingPrice |-> "45.0", mrp |-> "50.0"]

\* round(): to the nearest integer number of units, ties to even
RoundHalfEven(num, den) ==
    LET q == num \div den
        r == num % den
    IN IF 2 * r < den THEN q
       ELSE IF 2 * r > den THEN q + 1
       ELSE IF q % 2 = 0 THEN q ELSE q + 1

\* line 87: item['itemName'].lower() raises KeyError or AttributeError
DistancesRaise(inv) == \E k \in 1..Len(inv) : ~IsStr(inv[k].itemName)

Distance(name_part, entry) == levenshtein_distance(Lower(name_part), Lower(entry.itemName))

\* line 87: the distances of the list distances, in catalog order
RECURSIVE Distances(_, _)
Distances(name_part, inv) ==
    IF inv = <<>> THEN <<>>
    ELSE <<Distance(name_part, Head(inv))>> \o Distances(name_part, Tail(inv))

\* min(distances, key=lambda x: x[1]): the first position of minimal distance
MinIndex(d) ==
    CHOOSE k \in 1..Len(d) :
        /\ \A j \in 1..Len(d) : d[k] <= d[j]
        /\ \A j \in 1..(k - 1) : d[j] > d[k]

\* line 88: the position of closest_item in inventory_items
ClosestIndex(name_part, inv) ==
    CHOOSE k \in { MinIndex(d) : d \in { Distances(name_part, inv) } } : TRUE

\* round(similarity_score, 3), in thousandths
SimilarityScore(name_part, closest_item) ==
    LET min_dist == Distance(name_part, closest_item)
        max_len == Max2(Len(name_part), Len(closest_item.itemName))
    IN IF max_len > 0 THEN RoundHalfEven(1000 * (max_len - min_dist), max_len) ELSE 0

\* line 93: closest_item.get('unitSize', '').lower() raises AttributeError
UnitSizeRaises(closest_item) == closest_item.unitSize = NotStr

\* lines 92-99
MatchedUnit(closest_item, unit_part, reply) ==
    LET inventory_unit == Lower(Get(closest_item.unitSize, ""))
    IN IF inventory_unit # "" /\ inventory_unit \in valid_units THEN inventory_unit
       ELSE IF unit_part # ""
            THEN (IF unit_part \in unit_mapping_keys THEN unit_mapping(unit_part) ELSE unit_part)
       ELSE get_intelligent_unit_fallback(closest_item.itemName, reply)

\* lines 120-130; "None" is Python's None
UnmatchedUnit(name_part, unit_part, reply) ==
    LET u == IF unit_part \in unit_mapping_keys THEN unit_mapping(unit_part)
             ELSE IF unit_part = "" \/ unit_part \notin valid_units
                  THEN get_intelligent_unit_fallback(name_part, reply)
             ELSE unit_part
    IN IF u # "" THEN u ELSE "None"

\* lines 101-115
MutMatchedItemKeepsText(name_part, unit_part, confidence, closest_item, reply) ==
    [item |-> Title(name_part),
     quantity |-> "None",
     unit |-> MatchedUnit(closest_item, unit_part, reply),
     confidence |-> RoundHalfEven(confidence, ConfDen),
     fuzzy_match |-> Some([similarity_score |-> SimilarityScore(name_part, closest_item),
                           original_extracted |-> name_part,
                           matched_field |-> "itemName",
                           inventory_id |-> Get(closest_item.id, ""),
                           item_id |-> Get(closest_item.itemId, ""),
                           selling_price |-> Get(closest_item.sellingPrice, "None"),
                           mrp |-> Get(closest_item.mrp, "None")])]
MatchedItem(name_part, unit_part, confidence, closest_item, reply) ==
    [item |-> closest_item.itemName,
     quantity |-> "None",
     unit |-> MatchedUnit(closest_item, unit_part, reply),
     confidence |-> RoundHalfEven(confidence, ConfDen),
     fuzzy_match |-> Some([similarity_score |-> SimilarityScore(name_part, closest_item),
                           original_extracted |-> name_part,
                           matched_field |-> "itemName",
                           inventory_id |-> Get(closest_item.id, ""),
                           item_id |-> Get(closest_item.itemId, ""),
                           selling_price |-> Get(closest_item.sellingPrice, "None"),
                           mrp |-> Get(closest_item.mrp, "None")])]

\* lines 127-133
UnmatchedItem(name_part, unit_part, confidence, reply) ==
    [item |-> Title(name_part),
     quantity |-> "None",
     unit |-> UnmatchedUnit(name_part, unit_part, reply),
     confidence |-> RoundHalfEven(confidence, ConfDen),
     fuzzy_match |-> None]

Outcome(kind, item) == [kind |-> kind, item |-> item]

\* lines 86-137 for the winning pattern's (name_part, unit_part)
MutBuildItemEmptyRaises(name_part, unit_part, confidence, inv, reply) ==
    IF inv # <<>>
    THEN IF DistancesRaise(inv) THEN Outcome("raised", None)
         ELSE LET closest_item == inv[ClosestIndex(name_part, inv)]
              IN IF UnitSizeRaises(closest_item) THEN Outcome("raised", None)
                 ELSE Outcome("item", Some(MatchedItem(name_part, unit_part, confidence,
                                                       closest_item, reply)))
    ELSE Outcome("raised", None)
BuildItem(name_part, unit_part, confidence, inv, reply) ==
    IF inv # <<>>
    THEN IF DistancesRaise(inv) THEN Outcome("raised", None)
         ELSE LET closest_item == inv[ClosestIndex(name_part, inv)]
              IN IF UnitSizeRaises(closest_item) THEN Outcome("raised", None)
                 ELSE Outcome("item", Some(MatchedItem(name_part, unit_part, confidence,
                                                       closest_item, reply)))
    ELSE Outcome("item", Some(UnmatchedItem(name_part, unit_part, confidence, reply)))

MutLineOutcomeRejectsMinimum(text, confidence, inv, reply) ==
    IF confidence <= min_confidence * ConfDen THEN Outcome("low_confidence", None)
    ELSE LET line == Strip(Lower(text))
         IN IF Len(line) < 2 THEN Outcome("short", None)
            ELSE LET mt == FirstPattern(1, CleanLine(line))
                 IN IF IsNone(mt) THEN Outcome("no_pattern", None)
                    ELSE BuildItem(Val(mt)[1], Val(mt)[2], confidence, inv, reply)
\* the body of "for text, confidence in texts_with_confidence", lines 48-146:
\* what becomes of one line
LineOutcome(text, confidence, inv, reply) ==
    IF confidence < min_confidence * ConfDen THEN Outcome("low_confidence", None)
    ELSE LET line == Strip(Lower(text))
         IN IF Len(line) < 2 THEN Outcome("short", None)
            ELSE LET mt == FirstPattern(1, CleanLine(line))
                 IN IF IsNone(mt) THEN Outcome("no_pattern", None)
                    ELSE BuildItem(Val(mt)[1], Val(mt)[2], confidence, inv, reply)

\* the loop goes on with the next line on every path: the two continue
\* statements, the except handler's continue, and the end of the body
MutBreakOnException(i, kind, n) == IF kind = "raised" THEN n + 1 ELSE i + 1
AfterLine(i, kind, n) == i + 1

\* the replies of the Gemini model the unit fallback may get
GeminiReplies == {None, Some("packet")}

--------------------------------------------------------------------------
(* fuzzy_match_inventory_item, ocr_service.py 293-379 *)

\* Natural numbers beyond the range of 32-bit integers, as the 53-bit
\* significands of Python's floats need them: limbs of LimbBase, the least
\* significant first, no zero limb at the top
LimbBase == Pow2(14)

RECURSIVE Trim(_)
Trim(a) ==
    IF a = <<>> THEN <<>>
    ELSE IF a[Len(a)] = 0 THEN Trim(SubSeq(a, 1, Len(a) - 1))
    ELSE a

RECURSIVE Big(_)
Big(n) == IF n = 0 THEN <<>> ELSE <<n % LimbBase>> \o Big(n \div LimbBase)

RECURSIVE BigAddCarry(_, _, _)
BigAddCarry(a, b, carry) ==
    IF a = <<>> /\ b = <<>> THEN (IF carry = 0 THEN <<>> ELSE <<carry>>)
    ELSE LET x == IF a = <<>> THEN 0 ELSE Head(a)
             y == IF b = <<>> THEN 0 ELSE Head(b)
             s == x + y + carry
         IN <<s % LimbBase>>
            \o BigAddCarry(IF a = <<>> THEN <<>> ELSE Tail(a),
                           IF b = <<>> THEN <<>> ELSE Tail(b), s \div LimbBase)

BigAdd(a, b) == BigAddCarry(a, b, 0)

\* a * k + carry for k below LimbBase
RECURSIVE BigMulSmall(_, _, _)
BigMulSmall(a, k, carry) ==
    IF a = <<>> THEN Big(carry)
    ELSE LET p == Head(a) * k + carry
         IN <<p % LimbBase>> \o BigMulSmall(Tail(a), k, p \div LimbBase)

RECURSIVE BigMul(_, _)
BigMul(a, b) ==
    IF a = <<>> \/ b = <<>> THEN <<>>
    ELSE Trim(BigAdd(BigMulSmall(b, Head(a), 0), <<0>> \o BigMul(Tail(a), b)))

\* <<a \div k, a % k>> for k below LimbBase, from the top limb down
RECURSIVE BigDivSmall(_, _)
BigDivSmall(a, k) ==
    IF a = <<>> THEN <<(<<>>), 0>>
    ELSE LET upper == BigDivSmall(Tail(a), k)
             cur == upper[2] * LimbBase + Head(a)
         IN <<Trim(<<cur \div k>> \o upper[1]), cur % k>>

RECURSIVE Zeros(_)
Zeros(n) == IF n = 0 THEN <<>> ELSE <<0>> \o Zeros(n - 1)

\* a * 2^n and a \div 2^n
BigShl(a, n) ==
    IF a = <<>> THEN <<>>
    ELSE Zeros(n \div 14) \o Trim(BigMulSmall(a, Pow2(n % 14), 0))
BigShr(a, n) ==
    IF n \div 14 >= Len(a) THEN <<>>
    ELSE BigDivSmall(SubSeq(a, n \div 14 + 1, Len(a)), Pow2(n % 14))[1]

RECURSIVE BitLenSmall(_)
BitLenSmall(n) == IF n = 0 THEN 0 ELSE 1 + BitLenSmall(n \div 2)

BitLen(a) == IF a = <<>> THEN 0 ELSE 14 * (Len(a) - 1) + BitLenSmall(a[Len(a)])

BigOdd(a) == a # <<>> /\ a[1] % 2 = 1

\* a < b
RECURSIVE BigLT(_, _)
BigLT(a, b) ==
    IF Len(a) # Len(b) THEN Len(a) < Len(b)
    ELSE IF a = <<>> THEN FALSE
    ELSE IF a[Len(a)] # b[Len(b)] THEN a[Len(a)] < b[Len(b)]
    ELSE BigLT(SubSeq(a, 1, Len(a) - 1), SubSeq(b, 1, Len(b) - 1))

\* A float of Python, an IEEE 754 double that is finite and not negative:
\* m * 2^e with a significand m of exactly MantissaBits bits, or zero
MantissaBits == 53

Float(m, e) == [m |-> m, e |-> e]
FloatZero == Float(<<>>, 0)

\* the float nearest to n * 2^e, or to a little more than that when sticky;
\* ties to the even significand
RoundToFloat(n, e, sticky) ==
    LET len == BitLen(n)
    IN IF n = <<>> THEN FloatZero
       ELSE IF len <= MantissaBits
       THEN Float(BigShl(n, MantissaBits - len), e - (MantissaBits - len))
       ELSE LET s == len - MantissaBits
                with_round_bit == BigShr(n, s - 1)
                kept == BigShr(with_round_bit, 1)
                rest == sticky \/ BigShl(with_round_bit, s - 1) # n
                up == BigOdd(with_round_bit) /\ (rest \/ BigOdd(kept))
                m == IF up THEN BigAdd(kept, <<1>>) ELSE kept
            IN IF BitLen(m) > MantissaBits THEN Float(BigShr(m, 1), e + s + 1)
               ELSE Float(m, e + s)

FloatOfInt(n) == RoundToFloat(Big(n), 0, FALSE)

\* a / b for integers a >= 0 and b > 0 (also float(a) / float(b))
FloatDiv(a, b) ==
    LET qr == BigDivSmall(BigShl(Big(a), 70), b)
    IN RoundToFloat(qr[1], 0 - 70, qr[2] # 0)

FloatMul(x, y) == RoundToFloat(BigMul(x.m, y.m), x.e + y.e, FALSE)

FloatAdd(x, y) ==
    IF x.m = <<>> THEN y
    ELSE IF y.m = <<>> THEN x
    ELSE LET e == Min2(x.e, y.e)
         IN RoundToFloat(BigAdd(BigShl(x.m, x.e - e), BigShl(y.m, y.e - e)), e, FALSE)

FloatLT(x, y) ==
    IF y.m = <<>> THEN FALSE
    ELSE IF x.m = <<>> THEN TRUE
    ELSE IF x.e # y.e THEN x.e < y.e
    ELSE BigLT(x.m, y.m)
FloatLE(x, y) == ~FloatLT(y, x)
FloatEQ(x, y) == x = y
\* max(x, y) and min(x, y) of Python: the first argument unless the second
\* is strictly better
FloatMax(x, y) == IF FloatLT(x, y) THEN y ELSE x
FloatMin(x, y) == IF FloatLT(y, x) THEN y ELSE x

\* the literals 0.6, 0.4, 0.2 and 1.0
Float06 == FloatDiv(3, 5)
Float04 == FloatDiv(2, 5)
Float02 == FloatDiv(1, 5)
FloatOne == FloatOfInt(1)

\* the parameter's default value 0.6
default_threshold == Float06

\* clean_text, lines 295-300
clean_text(text) ==
    LET lowered == Lower(text)
        kept == KeepChars(lowered, LowerSet \cup UpperSet \cup DigitSet \cup SpaceSet)
    IN Strip(CollapseSpaces(kept, FALSE))

\* a[i..i+k-1] = b[j..j+k-1]
MatchAt(a, i, b, j, k) == SubSeq(a, i, i + k - 1) = SubSeq(b, j, j + k - 1)

\* a block of size k starts at a[i] and somewhere in b[blo..bhi]
RowMatch(a, i, b, blo, bhi, k) == \E j \in blo..(bhi - k + 1) : MatchAt(a, i, b, j, k)

\* a block of size k lies in a[alo..ahi] and b[blo..bhi]
HasMatch(a, alo, ahi, b, blo, bhi, k) ==
    \E i \in alo..(ahi - k + 1) : RowMatch(a, i, b, blo, bhi, k)

\* the block of size k that starts earliest in a, and of those earliest in b
FirstBlock(a, alo, ahi, b, blo, bhi, k) ==
    IF k = 0 THEN <<alo, blo, 0>>
    ELSE CHOOSE m \in (alo..(ahi - k + 1)) \X (blo..(bhi - k + 1)) \X {k} :
            /\ MatchAt(a, m[1], b, m[2], k)
            /\ \A i \in alo..(m[1] - 1) : ~RowMatch(a, i, b, blo, bhi, k)
            /\ \A j \in blo..(m[2] - 1) : ~MatchAt(a, m[1], b, j, k)

\* SequenceMatcher.find_longest_match on a[alo..ahi] and b[blo..bhi], no
\* junk: <<i, j, k>> with k maximal, then i minimal, then j minimal
find_longest_match(a, alo, ahi, b, blo, bhi) ==
    CHOOSE m \in { FirstBlock(a, alo, ahi, b, blo, bhi, k) :
                   k \in { n \in 0..Min2(ahi - alo + 1, bhi - blo + 1) :
                           /\ HasMatch(a, alo, ahi, b, blo, bhi, n)
                           /\ ~HasMatch(a, alo, ahi, b, blo, bhi, n + 1) } } : TRUE

\* the sum of the sizes of SequenceMatcher.get_matching_blocks(): the
\* longest block, then the blocks to its left and to its right
RECURSIVE matching_total(_, _, _, _, _, _)
matching_total(a, alo, ahi, b, blo, bhi) ==
    IF alo > ahi \/ blo > bhi THEN 0
    ELSE CHOOSE total \in
            { IF m[3] = 0 THEN 0
              ELSE m[3] + matching_total(a, alo, m[1] - 1, b, blo, m[2] - 1)
                        + matching_total(a, m[1] + m[3], ahi, b, m[2] + m[3], bhi) :
              m \in { find_longest_match(a, alo, ahi, b, blo, bhi) } } : TRUE

\* SequenceMatcher(None, a, b).ratio(), line 308
ratio(a, b) ==
    IF Len(a) + Len(b) = 0 THEN FloatOne
    ELSE FloatDiv(2 * matching_total(a, 1, Len(a), b, 1, Len(b)), Len(a) + Len(b))

\* the elements of a list
Range(t) == { t[k] : k \in 1..Len(t) }

\* set(s.split()) of a cleaned string
WordsOf(s) == { w \in Range(SplitOn(s, " ", "")) : w # "" }

\* lines 310-313
substring_bonus(clean_str1, clean_str2) ==
    IF Contains(clean_str2, clean_str1) \/ Contains(clean_str1, clean_str2)
    THEN Float02 ELSE FloatZero

\* lines 319-329: combined_similarity capped at 1.0
combined_similarity(seq_similarity, bonus, words1, words2) ==
    FloatMin(IF words1 # {} /\ words2 # {}
             THEN LET word_similarity == FloatDiv(Cardinality(words1 \cap words2),
                                                  Cardinality(words1 \cup words2))
                  IN FloatAdd(FloatAdd(FloatMul(seq_similarity, Float06),
                                       FloatMul(word_similarity, Float04)),
                              bonus)
             ELSE FloatAdd(seq_similarity, bonus),
             FloatOne)

\* lines 307-329 for the cleaned strings
CleanSimilarity(clean_str1, clean_str2) ==
    combined_similarity(ratio(clean_str1, clean_str2),
                        substring_bonus(clean_str1, clean_str2),
                        WordsOf(clean_str1), WordsOf(clean_str2))

\* calculate_similarity, lines 302-329
calculate_similarity(str1, str2) == CleanSimilarity(clean_text(str1), clean_text(str2))

\* clean_text(item_name) raises AttributeError when itemName is not a str
ItemNameRaises(item) == item.itemName = NotStr

\* line 360 with the three similarities of lines 349-357
Scores(name_similarity, brand_similarity, category_similarity) ==
    [name_similarity |-> name_similarity,
     brand_similarity |-> brand_similarity,
     category_similarity |-> category_similarity,
     max_similarity |-> FloatMax(FloatMax(name_similarity, brand_similarity),
                                 category_similarity)]

\* lines 344-357: the similarities of name with the fields of one entry
FieldScores(name, item_name, brand, category) ==
    Scores(calculate_similarity(name, item_name),
           IF brand # "" /\ brand # "NA"
           THEN calculate_similarity(name, Strip(brand \o " " \o item_name))
           ELSE FloatZero,
           IF category # ""
           THEN calculate_similarity(name, Strip(category \o " " \o item_name))
           ELSE FloatZero)

ItemScores(name, item) ==
    FieldScores(name, Get(item.itemName, ""), Get(item.brand, ""), Get(item.category, ""))

\* lines 364-371
MutBestMatchNeverCategory(name, item, s) ==
    [inventory_item |-> item,
     similarity_score |-> s.max_similarity,
     matched_field |-> IF FloatEQ(s.name_similarity, s.max_similarity) THEN "name"
                       ELSE "brand_name",
     extracted_name |-> name,
     matched_name |-> Get(item.itemName, "")]
BestMatch(name, item, s) ==
    [inventory_item |-> item,
     similarity_score |-> s.max_similarity,
     matched_field |-> IF FloatEQ(s.name_similarity, s.max_similarity) THEN "name"
                       ELSE IF FloatEQ(s.brand_similarity, s.max_similarity) THEN "brand_name"
                       ELSE "category_name",
     extracted_name |-> name,
     matched_name |-> Get(item.itemName, "")]

\* lines 362-371: <<best_match, best_score>> after an entry of scores s
MutAfterItemReplacesOnTie(bm, bs, name, item, s) ==
    IF FloatLE(bs, s.max_similarity) /\ FloatLE(threshold, s.max_similarity)
    THEN <<Some(BestMatch(name, item, s)), s.max_similarity>>
    ELSE <<bm, bs>>
AfterItem(bm, bs, name, item, s) ==
    IF FloatLT(bs, s.max_similarity) /\ FloatLE(threshold, s.max_similarity)
    THEN <<Some(BestMatch(name, item, s)), s.max_similarity>>
    ELSE <<bm, bs>>

\* lines 331-339: the early returns, else the start of the loop
FM_Start ==
    /\ fm_pc = "call"
    /\ IF fm_inventory_items = <<>> \/ extracted_name = ""
       THEN fm_pc' = "done"
       ELSE IF clean_text(extracted_name) = ""
       THEN fm_pc' = "done"
       ELSE fm_pc' = "loop"
    /\ best_match' = None
    /\ best_score' = FloatZero
    /\ fi' = 1
    /\ UNCHANGED <<rl_vars, db_vars, ex_vars, up_vars, cl_vars, cu_vars, extracted_name, fm_inventory_items, threshold, lv_vars, ki_vars, st_vars, cb_vars, sr_vars, tc_vars>>

\* one iteration of "for item in inventory_items", lines 343-371
FM_Item ==
    /\ fm_pc = "loop"
    /\ fi <= Len(fm_inventory_items)
    /\ IF ItemNameRaises(fm_inventory_items[fi])
       THEN /\ fm_pc' = "raised"
            /\ UNCHANGED <<best_match, best_score, fi>>
       ELSE /\ \E after \in { AfterItem(best_match, best_score, extracted_name,
                                        fm_inventory_items[fi],
                                        ItemScores(extracted_name, fm_inventory_items[fi])) } :
                  /\ best_match' = after[1]
                  /\ best_score' = after[2]
            /\ fi' = fi + 1
            /\ fm_pc' = fm_pc
    /\ UNCHANGED <<rl_vars, db_vars, ex_vars, up_vars, cl_vars, cu_vars, extracted_name, fm_inventory_items, threshold, lv_vars, ki_vars, st_vars, cb_vars, sr_vars, tc_vars>>

\* return best_match, line 378
FM_Return ==
    /\ fm_pc = "loop"
    /\ fi > Len(fm_inventory_items)
    /\ fm_pc' = "done"
    /\ UNCHANGED <<rl_vars, db_vars, ex_vars, up_vars, cl_vars, cu_vars, extracted_name, fm_inventory_items, threshold,
                   best_match, best_score, fi, lv_vars, ki_vars, st_vars, cb_vars, sr_vars, tc_vars>>

--------------------------------------------------------------------------
(* levenshtein_distance called on its own, ocr_routes.py 15-30 *)

\* levenshtein_distance(lv_s1, lv_s2)
LV_Forward ==
    /\ lv_forward = None
    /\ lv_s1 # Absent
    /\ lv_forward' = Some(levenshtein_distance(lv_s1, lv_s2))
    /\ UNCHANGED <<rl_vars, db_vars, ex_vars, up_vars, fm_vars, cl_vars, cu_vars,
                   lv_s1, lv_s2, lv_backward, ki_vars, st_vars, cb_vars, sr_vars, tc_vars>>

\* levenshtein_distance(lv_s2, lv_s1)
LV_Backward ==
    /\ lv_backward = None
    /\ lv_s1 # Absent
    /\ lv_backward' = Some(levenshtein_distance(lv_s2, lv_s1))
    /\ UNCHANGED <<rl_vars, db_vars, ex_vars, up_vars, fm_vars, cl_vars, cu_vars,
                   lv_s1, lv_s2, lv_forward, ki_vars, st_vars, cb_vars, sr_vars, tc_vars>>

--------------------------------------------------------------------------
(* generate_unique_kirana_id and validate_kirana_id, utils.py 13-60 *)

max_attempts == 100

\* str(n) of a natural number
RECURSIVE Decimal(_)
Decimal(n) ==
    IF n < 10 THEN CharAt(DigitChars, n + 1)
    ELSE Decimal(n \div 10) \o CharAt(DigitChars, (n % 10) + 1)

\* f"{n:03d}"
RECURSIVE ZeroPad3(_)
ZeroPad3(d) == IF Len(d) < 3 THEN ZeroPad3("0" \o d) ELSE d

\* s[-6:]
LastSix(s) == IF Len(s) <= 6 THEN s ELSE SubSeq(s, Len(s) - 5, Len(s))

\* int(s) of a string of digits
RECURSIVE ParseInt(_)
ParseInt(s) ==
    IF s = "" THEN 0
    ELSE 10 * ParseInt(SubSeq(s, 1, Len(s) - 1))
         + (IndexOf(CharAt(s, Len(s)), DigitChars) - 1)

\* line 30: int(f"{timestamp % 1000000}{random_suffix:03d}"[-6:])
FallbackId(timestamp, random_suffix) ==
    ParseInt(LastSix(Decimal(timestamp % 1000000) \o ZeroPad3(Decimal(random_suffix))))

\* validate_kirana_id, lines 45-60, of an integer: is it accepted
validate_kirana_id(kirana_id) ==
    IF kirana_id = 0 THEN FALSE
    ELSE IF Len(Decimal(kirana_id)) # 6 THEN FALSE
    ELSE 100000 <= kirana_id /\ kirana_id <= 999999

\* one iteration of "while attempts < max_attempts", lines 21-25, with the
\* number random.randint(100000, 999999) returns
KI_Attempt(kirana_id) ==
    /\ ki_pc = "loop"
    /\ ki_attempts < max_attempts
    /\ IF kirana_id \notin ki_collection
       THEN /\ ki_returned' = Some(kirana_id)
            /\ ki_pc' = "done"
            /\ UNCHANGED ki_attempts
       ELSE /\ ki_attempts' = ki_attempts + 1
            /\ UNCHANGED <<ki_returned, ki_pc>>
    /\ UNCHANGED <<rl_vars, db_vars, ex_vars, up_vars, fm_vars, cl_vars, cu_vars, lv_vars,
                   ki_collection, st_vars, cb_vars, sr_vars, tc_vars>>

\* lines 27-30, with the time and the number random.randint(0, 999) returns
KI_Fallback(timestamp, random_suffix) ==
    /\ ki_pc = "loop"
    /\ ki_attempts >= max_attempts
    /\ ki_returned' = Some(FallbackId(timestamp, random_suffix))
    /\ ki_pc' = "done"
    /\ UNCHANGED <<rl_vars, db_vars, ex_vars, up_vars, fm_vars, cl_vars, cu_vars, lv_vars,
                   ki_collection, ki_attempts, st_vars, cb_vars, sr_vars, tc_vars>>

--------------------------------------------------------------------------
(* create_bill, bill_routes.py 10-197 *)

\* the inventory documents: _id and sellingPrice
ProductIds == {"A", "B"}
sellingPrice == [i \in ProductIds |-> IF i = "A" THEN 20 ELSE 50]

\* the user documents
CustomerIds == {"c1"}

\* one element of data['items']
BillLine(item_id, quantity) == [item_id |-> item_id, quantity |-> quantity]

\* the request data and the locals of one create_bill call
BillRequest(customer_id, lines_, loyalty_points_used) ==
    [customer_id |-> customer_id, items |-> lines_,
     loyalty_points_used |-> loyalty_points_used,
     customer_info |-> None, validated_items |-> <<>>, total_amount |-> 0,
     vi |-> 1, pc |-> "start", status |-> 0]

\* the request ends with a response of this status
BillResponds(p, status) == cb' = [cb EXCEPT ![p].pc = "done", ![p].status = status]

\* lines 16-42: no items, no collections, else the customer is looked up
CB_Start(p) ==
    /\ cb[p].pc = "start"
    /\ IF cb[p].items = <<>> THEN BillResponds(p, 400)
       ELSE IF ~st_connected THEN BillResponds(p, 500)
       ELSE cb' = [cb EXCEPT ![p].pc = "validate",
                             ![p].customer_info =
                                 IF ~IsNone(cb[p].customer_id)
                                    /\ Val(cb[p].customer_id) \in CustomerIds
                                 THEN Some(loyalty_points[Val(cb[p].customer_id)])
                                 ELSE None]
    /\ UNCHANGED <<rl_vars, db_vars, ex_vars, up_vars, fm_vars, cl_vars, cu_vars, lv_vars,
                   ki_vars, st_vars, sr_vars, tc_vars>>

\* one iteration of "for item in items", lines 48-87
CB_Item(p) ==
    /\ cb[p].pc = "validate"
    /\ cb[p].vi <= Len(cb[p].items)
    /\ LET item == cb[p].items[cb[p].vi]
           item_id == item.item_id
           quantity == item.quantity
       IN IF item_id = "" \/ quantity <= 0 THEN BillResponds(p, 400)
          ELSE IF item_id \notin products THEN BillResponds(p, 404)
          ELSE IF stockQuantity[item_id] < quantity THEN BillResponds(p, 400)
          ELSE cb' = [cb EXCEPT
                        ![p].total_amount = @ + sellingPrice[item_id] * quantity,
                        ![p].validated_items =
                            Append(@, [product_id |-> item_id, quantity |-> quantity,
                                       item_total |-> sellingPrice[item_id] * quantity]),
                        ![p].vi = @ + 1]
    /\ UNCHANGED <<rl_vars, db_vars, ex_vars, up_vars, fm_vars, cl_vars, cu_vars, lv_vars,
                   ki_vars, st_vars, sr_vars, tc_vars>>

\* line 96
points_earned(total_amount) == total_amount \div 20

\* lines 105-124
BillData(r) ==
    [customer_id |-> IF IsNone(r.customer_info) THEN None ELSE r.customer_id,
     items |-> r.validated_items,
     subtotal |-> r.total_amount,
     loyalty_points_used |-> r.loyalty_points_used,
     points_earned |-> points_earned(r.total_amount),
     final_amount |-> r.total_amount - r.loyalty_points_used * 2]

\* lines 131-142: the stock after the updates of the first n validated
\* items, each an $inc by -quantity
RECURSIVE StockAfter(_, _, _)
StockAfter(stock, validated_items, n) ==
    IF n = 0 THEN stock
    ELSE LET before == StockAfter(stock, validated_items, n - 1)
             item == validated_items[n]
         IN [before EXCEPT ![item.product_id] = @ - item.quantity]

\* lines 141-142: the first validated item whose update modifies no
\* document, or 0
FirstUnmodified(validated_items) ==
    IF \A n \in 1..Len(validated_items) : validated_items[n].product_id \in products
    THEN 0
    ELSE CHOOSE n \in 1..Len(validated_items) :
            /\ validated_items[n].product_id \notin products
            /\ \A k \in 1..(n - 1) : validated_items[k].product_id \in products

\* the collections when the transaction of lines 128-164 ends: committed
\* when no statement of the block raised, else aborted
MutTransactionWritesAtOnce(r) ==
    LET failed == FirstUnmodified(r.validated_items)
    IN IF failed # 0
       THEN [committed |-> FALSE,
             stockQuantity |-> StockAfter(stockQuantity, r.validated_items, failed - 1),
             loyalty_points |-> loyalty_points,
             bills |-> bills]
       ELSE [committed |-> TRUE,
             stockQuantity |-> StockAfter(stockQuantity, r.validated_items,
                                          Len(r.validated_items)),
             loyalty_points |->
                 IF IsNone(r.customer_info) THEN loyalty_points
                 ELSE [loyalty_points EXCEPT ![Val(r.customer_id)] =
                          Val(r.customer_info) - r.loyalty_points_used
                              + points_earned(r.total_amount)],
             bills |-> Append(bills, BillData(r))]
Transaction(r) ==
    LET failed == FirstUnmodified(r.validated_items)
    IN IF failed # 0
       THEN [committed |-> FALSE,
             stockQuantity |-> stockQuantity,
             loyalty_points |-> loyalty_points,
             bills |-> bills]
       ELSE [committed |-> TRUE,
             stockQuantity |-> StockAfter(stockQuantity, r.validated_items,
                                          Len(r.validated_items)),
             loyalty_points |->
                 IF IsNone(r.customer_info) THEN loyalty_points
                 ELSE [loyalty_points EXCEPT ![Val(r.customer_id)] =
                          Val(r.customer_info) - r.loyalty_points_used
                              + points_earned(r.total_amount)],
             bills |-> Append(bills, BillData(r))]

\* lines 89-197 after the loop: the transaction, then the response 201, or
\* 500 when the transaction was aborted
CB_Transaction(p) ==
    /\ cb[p].pc = "validate"
    /\ cb[p].vi > Len(cb[p].items)
    /\ LET t == Transaction(cb[p])
       IN /\ stockQuantity' = t.stockQuantity
          /\ loyalty_points' = t.loyalty_points
          /\ bills' = t.bills
          /\ BillResponds(p, IF t.committed THEN 201 ELSE 500)
    /\ UNCHANGED <<rl_vars, db_vars, ex_vars, up_vars, fm_vars, cl_vars, cu_vars, lv_vars,
                   ki_vars, st_connected, products, receipts, sr_vars, tc_vars>>

\* the server raises inside the transaction (no replica set, a write
\* conflict, the connection lost): aborted, lines 195-197
CB_TransactionRaises(p) ==
    /\ cb[p].pc = "validate"
    /\ cb[p].vi > Len(cb[p].items)
    /\ BillResponds(p, 500)
    /\ UNCHANGED <<rl_vars, db_vars, ex_vars, up_vars, fm_vars, cl_vars, cu_vars, lv_vars,
                   ki_vars, st_vars, sr_vars, tc_vars>>

\* delete_item of inventory_routes.py, lines 346-373, for a document that
\* exists
INV_Delete(item_id) ==
    /\ st_connected
    /\ item_id \in products
    /\ products' = products \ {item_id}
    /\ UNCHANGED <<rl_vars, db_vars, ex_vars, up_vars, fm_vars, cl_vars, cu_vars, lv_vars,
                   ki_vars, st_connected, stockQuantity, loyalty_points, bills, receipts,
                   cb_vars, sr_vars, tc_vars>>

--------------------------------------------------------------------------
(* save_receipt_items, ocr_routes.py 290-359 *)

\* one element of data['items']: item is a string or Absent, quantity a
\* number or None, unit a string or Absent, inventory_id the
\* fuzzy_match.inventory_id or None
ReceiptItem(item, quantity, unit, inventory_id) ==
    [item |-> item, quantity |-> quantity, unit |-> unit, inventory_id |-> inventory_id]

\* the request data and the locals of one save_receipt_items call
ReceiptRequest(items_) ==
    [items |-> items_, enriched_items |-> <<>>, ri |-> 1, pc |-> "start", status |-> 0]

\* lines 295-301
SR_Start ==
    /\ sr # <<>>
    /\ sr.pc = "start"
    /\ sr' = IF sr.items = <<>>
             THEN [sr EXCEPT !.pc = "done", !.status = 400]
             ELSE [sr EXCEPT !.pc = "loop"]
    /\ UNCHANGED <<rl_vars, db_vars, ex_vars, up_vars, fm_vars, cl_vars, cu_vars, lv_vars,
                   ki_vars, st_vars, cb_vars, tc_vars>>

\* line 305
InvalidReceiptItem(item) ==
    \/ item.item \in {Absent, ""}
    \/ IsNone(item.quantity)
    \/ Val(item.quantity) <= 0

\* lines 311-330: the document is looked up and its stockQuantity
\* incremented; without the collection the attribute error is logged
StockAfterReceiptItem(item) ==
    IF ~IsNone(item.inventory_id) /\ st_connected /\ Val(item.inventory_id) \in products
    THEN [stockQuantity EXCEPT ![Val(item.inventory_id)] = @ + Val(item.quantity)]
    ELSE stockQuantity

\* one iteration of "for item in items", lines 304-342
SR_Item ==
    /\ sr # <<>>
    /\ sr.pc = "loop"
    /\ sr.ri <= Len(sr.items)
    /\ LET item == sr.items[sr.ri]
       IN IF InvalidReceiptItem(item)
          THEN /\ sr' = [sr EXCEPT !.pc = "done", !.status = 400]
               /\ UNCHANGED stockQuantity
          ELSE /\ stockQuantity' = StockAfterReceiptItem(item)
               /\ sr' = IF item.unit = Absent
                        THEN [sr EXCEPT !.pc = "done", !.status = 500]
                        ELSE [sr EXCEPT !.ri = @ + 1,
                                        !.enriched_items =
                                            Append(@, [itemName |-> item.item,
                                                       quantity |-> Val(item.quantity),
                                                       unit |-> item.unit,
                                                       inventory_id |-> item.inventory_id])]
    /\ UNCHANGED <<rl_vars, db_vars, ex_vars, up_vars, fm_vars, cl_vars, cu_vars, lv_vars,
                   ki_vars, st_connected, products, loyalty_points, bills, receipts,
                   cb_vars, tc_vars>>

\* lines 344-355, and 357-359 without the receipts collection
SR_Insert ==
    /\ sr # <<>>
    /\ sr.pc = "loop"
    /\ sr.ri > Len(sr.items)
    /\ IF st_connected
       THEN /\ receipts' = Append(receipts, [items |-> sr.enriched_items])
            /\ sr' = [sr EXCEPT !.pc = "done", !.status = 200]
       ELSE /\ UNCHANGED receipts
            /\ sr' = [sr EXCEPT !.pc = "done", !.status = 500]
    /\ UNCHANGED <<rl_vars, db_vars, ex_vars, up_vars, fm_vars, cl_vars, cu_vars, lv_vars,
                   ki_vars, st_connected, products, stockQuantity, loyalty_points, bills,
                   cb_vars, tc_vars>>

--------------------------------------------------------------------------
(* The cleaning steps of the two matchers, applied to a text and then to
   their own output *)

MaxApplications == 2

\* lines 53 and 58-63 of extract_items_from_text: line after the steps
CleaningSteps(text) == CleanLine(Strip(Lower(text)))

\* the text the next application is given
Latest == IF cl_outputs = <<>> THEN cl_input ELSE cl_outputs[Len(cl_outputs)]

\* the cleaning of extract_items_from_text, ocr_routes.py 53-63
CL_CleanLine ==
    /\ cl_pc = "line"
    /\ Len(cl_outputs) < MaxApplications
    /\ cl_outputs' = Append(cl_outputs, CleaningSteps(Latest))
    /\ UNCHANGED <<rl_vars, db_vars, ex_vars, up_vars, fm_vars, cl_input, cl_pc, cu_vars, lv_vars, ki_vars, st_vars, cb_vars, sr_vars, tc_vars>>

\* clean_text of fuzzy_match_inventory_item, ocr_service.py 295-300
CL_CleanText ==
    /\ cl_pc = "text"
    /\ Len(cl_outputs) < MaxApplications
    /\ cl_outputs' = Append(cl_outputs, clean_text(Latest))
    /\ UNCHANGED <<rl_vars, db_vars, ex_vars, up_vars, fm_vars, cl_input, cl_pc, cu_vars, lv_vars, ki_vars, st_vars, cb_vars, sr_vars, tc_vars>>

--------------------------------------------------------------------------
(* get_inventory_items_from_db, utils.py 62-90 *)

\* the value returned and the cache afterwards
FetchResult(c, d) ==
    IF ~IsNone(c) THEN [returned |-> Val(c), cache |-> c]
    ELSE IF ~d.connected THEN [returned |-> <<>>, cache |-> c]
    ELSE IF d.raises THEN [returned |-> <<>>, cache |-> c]
    ELSE [returned |-> d.items, cache |-> Some(d.items)]

\* inventory_items = get_inventory_items_from_db(), line 45
EX_Fetch ==
    /\ ex_pc = "call"
    /\ inventory_items' = FetchResult(cache, db).returned
    /\ cache' = FetchResult(cache, db).cache
    /\ items' = <<>>
    /\ ti' = 1
    /\ ex_pc' = "loop"
    /\ UNCHANGED <<rl_vars, db, texts_with_confidence, up_vars, fm_vars, cl_vars, cu_vars, lv_vars, ki_vars, st_vars, cb_vars, sr_vars, tc_vars>>

\* one iteration of "for text, confidence in texts_with_confidence"
EX_Line ==
    /\ ex_pc = "loop"
    /\ ti <= Len(texts_with_confidence)
    /\ \E reply \in GeminiReplies :
         LET o == LineOutcome(texts_with_confidence[ti][1], texts_with_confidence[ti][2],
                              inventory_items, reply)
         IN /\ items' = IF o.kind = "item" THEN Append(items, Val(o.item)) ELSE items
            /\ ti' = AfterLine(ti, o.kind, Len(texts_with_confidence))
    /\ UNCHANGED <<rl_vars, db_vars, texts_with_confidence, inventory_items, ex_pc, up_vars, fm_vars, cl_vars, cu_vars, lv_vars, ki_vars, st_vars, cb_vars, sr_vars, tc_vars>>

\* return items
EX_Return ==
    /\ ex_pc = "loop"
    /\ ti > Len(texts_with_confidence)
    /\ ex_pc' = "done"
    /\ UNCHANGED <<rl_vars, db_vars, texts_with_confidence, inventory_items, items, ti, up_vars, fm_vars, cl_vars, cu_vars, lv_vars, ki_vars, st_vars, cb_vars, sr_vars, tc_vars>>

--------------------------------------------------------------------------
(* allowed_file, ocr_service.py 79-81, and Config, config.py 19-20 *)

ALLOWED_EXTENSIONS == {"png", "jpg", "jpeg", "bmp", "tiff"}
MAX_FILE_SIZE == 5 * 1024 * 1024

\* filename.rsplit('.', 1)[1]
RECURSIVE AfterLastDot(_)
AfterLastDot(filename) ==
    IF Contains(Tail(filename), ".") THEN AfterLastDot(Tail(filename))
    ELSE IF Head(filename) = "." THEN Tail(filename)
    ELSE AfterLastDot(Tail(filename))

allowed_file(filename) ==
    Contains(filename, ".") /\ Lower(AfterLastDot(filename)) \in ALLOWED_EXTENSIONS

--------------------------------------------------------------------------
(* upload_receipt, ocr_routes.py 150-250 *)

Request(reader_ok, has_file, filename, size, save_ok, preprocess_ok, ocr_ok) ==
    [reader_ok |-> reader_ok, has_file |-> has_file, filename |-> filename,
     size |-> size, save_ok |-> save_ok, preprocess_ok |-> preprocess_ok,
     ocr_ok |-> ocr_ok]

ErrorResponse(status, error) ==
    Some([status |-> status, error |-> error, items |-> <<>>, total_items |-> 0,
          reconstructed_lines |-> <<>>])

\* lines 220-226: the first item of every lower-cased name, in order
MutUniqueCaseSensitive(all_items, seen_items) ==
    LET RECURSIVE U(_, _)
        U(rest, seen) ==
            IF rest = <<>> THEN <<>>
            ELSE LET item_key == Head(rest).item
                 IN IF item_key \notin seen
                    THEN <<Head(rest)>> \o U(Tail(rest), seen \cup {item_key})
                    ELSE U(Tail(rest), seen)
    IN U(all_items, seen_items)
RECURSIVE UniqueItems(_, _)
UniqueItems(all_items, seen_items) ==
    IF all_items = <<>> THEN <<>>
    ELSE LET item_key == Lower(Head(all_items).item)
         IN IF item_key \notin seen_items
            THEN <<Head(all_items)>> \o UniqueItems(Tail(all_items), seen_items \cup {item_key})
            ELSE UniqueItems(Tail(all_items), seen_items)

\* lines 154-193: validation of the request, saving and preprocessing
RequestError(r) ==
    IF ~r.reader_ok THEN ErrorResponse(500, "OCR service not available")
    ELSE IF ~r.has_file THEN ErrorResponse(400, "No file uploaded")
    ELSE IF r.filename = "" THEN ErrorResponse(400, "No file selected")
    ELSE IF ~allowed_file(r.filename) THEN ErrorResponse(400, "Invalid file type")
    ELSE IF r.size > MAX_FILE_SIZE THEN ErrorResponse(400, "File too large. Maximum size is 5MB")
    ELSE IF ~r.save_ok THEN ErrorResponse(500, "Failed to save uploaded file")
    ELSE IF ~r.preprocess_ok THEN ErrorResponse(500, "Failed to process image")
    ELSE None

UP_Validate ==
    /\ up_pc = "start"
    /\ IF IsNone(RequestError(request))
       THEN /\ up_pc' = "ocr"
            /\ response' = response
       ELSE /\ up_pc' = "done"
            /\ response' = RequestError(request)
    /\ UNCHANGED <<rl_vars, db_vars, ex_vars, request, reconstructed_lines,
                   individual_fragments, items_from_lines, lv_vars, ki_vars, st_vars, cb_vars, sr_vars, tc_vars>>
    /\ UNCHANGED <<fm_vars, cl_vars, cu_vars, lv_vars, ki_vars, st_vars, cb_vars, sr_vars, tc_vars>>

\* line 197: results = reader.readtext(...)
UP_ReadText(OcrOutputs) ==
    /\ up_pc = "ocr"
    /\ IF request.ocr_ok
       THEN \E results \in OcrOutputs :
               /\ ocr_results' = results
               /\ rl_pc' = "call"
               /\ up_pc' = "reconstruct"
               /\ response' = response
       ELSE /\ response' = ErrorResponse(500, "Text extraction failed")
            /\ up_pc' = "done"
            /\ UNCHANGED <<ocr_results, rl_pc>>
    /\ UNCHANGED <<sorted_results, lines, current_line, current_y, ri, db_vars, ex_vars,
                   request, reconstructed_lines, individual_fragments, items_from_lines, lv_vars, ki_vars, st_vars, cb_vars, sr_vars, tc_vars>>
    /\ UNCHANGED <<fm_vars, cl_vars, cu_vars, lv_vars, ki_vars, st_vars, cb_vars, sr_vars, tc_vars>>

\* lines 200-213: reconstruct_receipt_lines has returned or raised
UP_AfterReconstruct ==
    /\ up_pc = "reconstruct"
    /\ rl_pc \in {"done", "raised"}
    /\ IF rl_pc = "raised"
       THEN /\ response' = ErrorResponse(500, "Text extraction failed")
            /\ up_pc' = "done"
            /\ UNCHANGED <<reconstructed_lines, individual_fragments, texts_with_confidence,
                           ex_pc>>
       ELSE /\ reconstructed_lines' = lines
            /\ individual_fragments' =
                 [k \in 1..Len(ocr_results) |-> <<ocr_results[k].text, ocr_results[k].conf>>]
            /\ texts_with_confidence' = lines
            /\ ex_pc' = "call"
            /\ up_pc' = "lines"
            /\ response' = response
    /\ rl_pc' = "idle"
    /\ UNCHANGED <<ocr_results, sorted_results, lines, current_line, current_y, ri, db_vars,
                   inventory_items, items, ti, request, items_from_lines, lv_vars, ki_vars, st_vars, cb_vars, sr_vars, tc_vars>>
    /\ UNCHANGED <<fm_vars, cl_vars, cu_vars, lv_vars, ki_vars, st_vars, cb_vars, sr_vars, tc_vars>>

\* lines 213-216: items_from_lines is set, the fragments are extracted
UP_AfterLines ==
    /\ up_pc = "lines"
    /\ ex_pc = "done"
    /\ items_from_lines' = items
    /\ texts_with_confidence' = individual_fragments
    /\ ex_pc' = "call"
    /\ up_pc' = "fragments"
    /\ UNCHANGED <<rl_vars, db_vars, inventory_items, items, ti, request,
                   reconstructed_lines, individual_fragments, response, lv_vars, ki_vars, st_vars, cb_vars, sr_vars, tc_vars>>
    /\ UNCHANGED <<fm_vars, cl_vars, cu_vars, lv_vars, ki_vars, st_vars, cb_vars, sr_vars, tc_vars>>

\* lines 216-246: items_from_fragments is set, the lists are merged and
\* deduplicated, the response is built
UP_Respond ==
    /\ up_pc = "fragments"
    /\ ex_pc = "done"
    /\ LET items_from_fragments == items
           all_items == items_from_lines \o items_from_fragments
           unique_items == UniqueItems(all_items, {})
       IN response' = Some([status |-> 200, error |-> "",
                            items |-> unique_items,
                            total_items |-> Len(unique_items),
                            reconstructed_lines |->
                                [k \in 1..Len(reconstructed_lines) |->
                                    <<reconstructed_lines[k][1],
                                      RoundHalfEven(reconstructed_lines[k][2], ConfDen)>>]])
    /\ ex_pc' = "idle"
    /\ up_pc' = "done"
    /\ UNCHANGED <<rl_vars, db_vars, texts_with_confidence, inventory_items, items, ti,
                   request, reconstructed_lines, individual_fragments, items_from_lines, lv_vars, ki_vars, st_vars, cb_vars, sr_vars, tc_vars>>
    /\ UNCHANGED <<fm_vars, cl_vars, cu_vars, lv_vars, ki_vars, st_vars, cb_vars, sr_vars, tc_vars>>

\* is_db_connected() pings the server at every call: the database becomes
\* reachable and its queries succeed. Only get_inventory_items_from_db reads
\* db, so the change is taken right before a call of it.
DB_Recovers ==
    /\ ex_pc = "call"
    /\ ~db.connected \/ db.raises
    /\ db' = [db EXCEPT !.connected = TRUE, !.raises = FALSE]
    /\ UNCHANGED <<rl_vars, cache, ex_vars, up_vars, fm_vars, cl_vars, cu_vars, lv_vars, ki_vars, st_vars, cb_vars, sr_vars, tc_vars>>

--------------------------------------------------------------------------
(* utils.cache = TTLCache(maxsize=1, ttl=300), and get_inventory_items_from_db
   step by step: the test of line 64, then the read of line 65 or the query
   of lines 67-86 *)

ttl == 300

\* 'items' in cache: the key is stored and the timer is before its expiry
CacheContains == ~IsNone(cache) /\ tc_now < Val(tc_expires)

\* a caller between two calls, with the outcome of its last call
CallDone(outcome, returned, queried) ==
    [pc |-> "idle", outcome |-> outcome, returned |-> returned, queried |-> queried]

\* line 64: if 'items' in cache
TC_Contains(p) ==
    /\ tc_call[p].pc = "idle"
    /\ tc_call' = [tc_call EXCEPT ![p] =
                      [pc |-> IF CacheContains THEN "hit" ELSE "miss",
                       outcome |-> "running", returned |-> None, queried |-> FALSE]]
    /\ UNCHANGED <<rl_vars, db_vars, ex_vars, up_vars, fm_vars, cl_vars, cu_vars, lv_vars,
                   ki_vars, st_vars, cb_vars, sr_vars, tc_now, tc_expires>>

\* line 65: return cache['items']; the read of an expired key raises KeyError
TC_GetItem(p) ==
    /\ tc_call[p].pc = "hit"
    /\ tc_call' = [tc_call EXCEPT ![p] =
                      IF CacheContains
                      THEN CallDone("returned", Some(FetchResult(cache, db).returned), FALSE)
                      ELSE CallDone("raised", None, FALSE)]
    /\ UNCHANGED <<rl_vars, db_vars, ex_vars, up_vars, fm_vars, cl_vars, cu_vars, lv_vars,
                   ki_vars, st_vars, cb_vars, sr_vars, tc_now, tc_expires>>

\* lines 67-90: the query, and cache['items'] = items with the expiry ttl
\* seconds after the store
TC_Fetch(p) ==
    /\ tc_call[p].pc = "miss"
    /\ LET r == FetchResult(None, db)
       IN /\ tc_call' = [tc_call EXCEPT ![p] =
                            CallDone("returned", Some(r.returned), db.connected)]
          /\ IF IsNone(r.cache)
             THEN UNCHANGED <<cache, tc_expires>>
             ELSE /\ cache' = r.cache
                  /\ tc_expires' = Some(tc_now + ttl)
    /\ UNCHANGED <<rl_vars, db, ex_vars, up_vars, fm_vars, cl_vars, cu_vars, lv_vars,
                   ki_vars, st_vars, cb_vars, sr_vars, tc_now>>

\* add_item, update_item, delete_item and update_stock of
\* inventory_routes.py write to the collection; none of them touches
\* utils.cache
MutInventoryChangeInvalidates(entries) ==
    /\ tc_call # <<>>
    /\ db.connected /\ ~db.raises
    /\ entries # db.items
    /\ db' = [db EXCEPT !.items = entries]
    /\ cache' = None
    /\ UNCHANGED <<rl_vars, ex_vars, up_vars, fm_vars, cl_vars, cu_vars, lv_vars,
                   ki_vars, st_vars, cb_vars, sr_vars, tc_vars>>
TC_InventoryChanges(entries) ==
    /\ tc_call # <<>>
    /\ db.connected /\ ~db.raises
    /\ entries # db.items
    /\ db' = [db EXCEPT !.items = entries]
    /\ UNCHANGED <<rl_vars, cache, ex_vars, up_vars, fm_vars, cl_vars, cu_vars, lv_vars,
                   ki_vars, st_vars, cb_vars, sr_vars, tc_vars>>

--------------------------------------------------------------------------
(* upload_receipt requests served concurrently: the file operations of
   ocr_routes.py 179-236 and of preprocess_image, ocr_service.py 83-117.
   The requests passed the validation of lines 154-177. *)

UPLOAD_FOLDER == "uploads/"

\* temp_path = os.path.join(Config.UPLOAD_FOLDER, filename)
TempPath(filename) == UPLOAD_FOLDER \o filename

\* processed_path = image_path.replace(".", "_processed.")
ProcessedPath(image_path) == ReplaceChars(image_path, {"."}, "_processed.")

\* the content of a file: the image uploaded by request id, as uploaded or
\* as written by preprocess_image
Raw(id) == [image |-> id, processed |-> FALSE]
Processed(content) == [image |-> content.image, processed |-> TRUE]

Exists(path) == ~IsNone(fs[path])

Goto(p, pc) == [req EXCEPT ![p].pc = pc]
Respond(p, status) == [req EXCEPT ![p].pc = "done", ![p].status = status]

\* line 183: file.save(temp_path)
CU_Save(p) ==
    /\ req[p].pc = "save"
    /\ fs' = [fs EXCEPT ![TempPath(req[p].filename)] = Some(Raw(p))]
    /\ req' = Goto(p, "imread")
    /\ UNCHANGED <<rl_vars, db_vars, ex_vars, up_vars, fm_vars, cl_vars, lv_vars, ki_vars, st_vars, cb_vars, sr_vars, tc_vars>>

\* ocr_service.py 89-91: img = cv2.imread(image_path); a missing file gives
\* None, ValueError, and the answer 500 of line 193
CU_Imread(p) ==
    /\ req[p].pc = "imread"
    /\ IF Exists(TempPath(req[p].filename))
       THEN req' = [req EXCEPT ![p].pc = "imwrite",
                               ![p].img = fs[TempPath(req[p].filename)]]
       ELSE req' = Respond(p, 500)
    /\ UNCHANGED <<rl_vars, db_vars, ex_vars, up_vars, fm_vars, cl_vars, fs, lv_vars, ki_vars, st_vars, cb_vars, sr_vars, tc_vars>>

\* ocr_service.py 110-111: cv2.imwrite(processed_path, cleaned)
CU_Imwrite(p) ==
    /\ req[p].pc = "imwrite"
    /\ fs' = [fs EXCEPT ![ProcessedPath(TempPath(req[p].filename))] =
                           Some(Processed(Val(req[p].img)))]
    /\ req' = Goto(p, "readtext")
    /\ UNCHANGED <<rl_vars, db_vars, ex_vars, up_vars, fm_vars, cl_vars, lv_vars, ki_vars, st_vars, cb_vars, sr_vars, tc_vars>>

\* line 197: reader.readtext(processed_path); a missing file raises, and
\* the answer is the 500 of line 210
CU_ReadText(p) ==
    /\ req[p].pc = "readtext"
    /\ IF Exists(ProcessedPath(TempPath(req[p].filename)))
       THEN req' = [req EXCEPT ![p].pc = "remove_temp",
                               ![p].ocr_image = fs[ProcessedPath(TempPath(req[p].filename))]]
       ELSE req' = Respond(p, 500)
    /\ UNCHANGED <<rl_vars, db_vars, ex_vars, up_vars, fm_vars, cl_vars, fs, lv_vars, ki_vars, st_vars, cb_vars, sr_vars, tc_vars>>

\* line 231: os.remove(temp_path); a missing file raises, the handler of
\* line 235 logs it and the answer is 200
CU_RemoveTemp(p) ==
    /\ req[p].pc = "remove_temp"
    /\ IF Exists(TempPath(req[p].filename))
       THEN /\ fs' = [fs EXCEPT ![TempPath(req[p].filename)] = None]
            /\ req' = Goto(p, "remove_processed")
       ELSE /\ fs' = fs
            /\ req' = Respond(p, 200)
    /\ UNCHANGED <<rl_vars, db_vars, ex_vars, up_vars, fm_vars, cl_vars, lv_vars, ki_vars, st_vars, cb_vars, sr_vars, tc_vars>>

\* lines 232-244: if os.path.exists(processed_path): os.remove(...), and
\* the answer 200
CU_RemoveProcessed(p) ==
    /\ req[p].pc = "remove_processed"
    /\ fs' = [fs EXCEPT ![ProcessedPath(TempPath(req[p].filename))] = None]
    /\ req' = Respond(p, 200)
    /\ UNCHANGED <<rl_vars, db_vars, ex_vars, up_vars, fm_vars, cl_vars, lv_vars, ki_vars, st_vars, cb_vars, sr_vars, tc_vars>>

--------------------------------------------------------------------------
(* Inputs of the line reconstruction *)

BoxWidth == 40

\* the first npts corners of the box: top-left, top-right, bottom-right,
\* bottom-left
Box(x, y, h, npts) ==
    SubSeq(<< <<x, y>>, <<x + BoxWidth, y>>, <<x + BoxWidth, y + h>>, <<x, y + h>> >>,
           1, npts)

GeomYs == {100, 120, 140}
GeomXs == {10, 60}
GeomHs == {20, 21}
FragTexts == <<"amul", "milk", "dal", "rice", "atta">>
FragConfs == <<90, 85, 80, 60, 20>>

\* the k-th supplied fragment: free geometry, its own text and confidence
GeomFragment(k, x, y, h, npts) ==
    Fragment(Box(x, y, h, npts), FragTexts[k], FragConfs[k] * ConfDen)

GeomInputs(max) ==
    UNION { { [k \in 1..n |-> GeomFragment(k, g[k][1], g[k][2], g[k][3], 4)] :
              g \in [1..n -> GeomXs \X GeomYs \X GeomHs] } : n \in 0..max }

\* extract_items_from_text and the inventory are not in use
ExtractIdle ==
    /\ db = [connected |-> FALSE, raises |-> FALSE, items |-> <<>>]
    /\ cache = None
    /\ texts_with_confidence = <<>>
    /\ inventory_items = <<>>
    /\ items = <<>>
    /\ ti = 1
    /\ ex_pc = "idle"

\* fuzzy_match_inventory_item is not in use
FuzzyIdle ==
    /\ extracted_name = ""
    /\ fm_inventory_items = <<>>
    /\ threshold = default_threshold
    /\ best_match = None
    /\ best_score = FloatZero
    /\ fi = 1
    /\ fm_pc = "idle"

\* the cleaning steps are not in use
CleanIdle ==
    /\ cl_input = ""
    /\ cl_outputs = <<>>
    /\ cl_pc = "idle"

\* no concurrent requests
ConcurrentIdle ==
    /\ fs = <<>>
    /\ req = <<>>

\* levenshtein_distance is not being called on its own
DistanceIdle ==
    /\ lv_s1 = Absent
    /\ lv_s2 = Absent
    /\ lv_forward = None
    /\ lv_backward = None

\* generate_unique_kirana_id is not in use
KiranaIdle ==
    /\ ki_collection = {}
    /\ ki_attempts = 0
    /\ ki_returned = None
    /\ ki_pc = "idle"

\* the timed cache is not in use
TimedIdle ==
    /\ tc_now = 0
    /\ tc_expires = None
    /\ tc_call = <<>>

\* no request writes to the collections
StoreIdle ==
    /\ st_connected = FALSE
    /\ products = {}
    /\ stockQuantity = <<>>
    /\ loyalty_points = <<>>
    /\ bills = <<>>
    /\ receipts = <<>>
    /\ cb = <<>>
    /\ sr = <<>>

\* upload_receipt is not in use
UploadIdle ==
    /\ request = Request(FALSE, FALSE, "", 0, FALSE, FALSE, FALSE)
    /\ reconstructed_lines = <<>>
    /\ individual_fragments = <<>>
    /\ items_from_lines = <<>>
    /\ response = None
    /\ up_pc = "idle"

InitLines ==
    /\ ocr_results \in GeomInputs(MaxFrags)
    /\ sorted_results = <<>>
    /\ lines = <<>>
    /\ current_line = <<>>
    /\ current_y = None
    /\ ri = 1
    /\ rl_pc = "call"
    /\ ExtractIdle
    /\ UploadIdle
    /\ FuzzyIdle
    /\ CleanIdle
    /\ ConcurrentIdle
    /\ DistanceIdle
    /\ KiranaIdle
    /\ StoreIdle
    /\ TimedIdle

NextLines == RL_Sort \/ RL_Step \/ RL_Return

SpecLines == InitLines /\ [][NextLines]_vars

--------------------------------------------------------------------------
(* Inputs of extract_items_from_text *)

MaxLines == 3

EntryMilk == CatalogEntry("id1", "I1", "Milk", "Amul", "Dairy", "ltr")
EntryToorDal == CatalogEntry("id2", "I2", "Toor Dal", "NA", "Pulses", Absent)
\* unitSize stored as a number
EntrySugar == CatalogEntry("id3", "I3", "Sugar", "NA", "Grocery", NotStr)
\* a document without itemName
EntryNoName == CatalogEntry("id4", "I4", Absent, "NA", "Grocery", "kg")
EntryMilkUpper == CatalogEntry("id5", "I5", "MILK", "Nandini", "Dairy", "1 L")

Catalogs == { <<>>,
              <<EntryMilk, EntryToorDal>>,
              <<EntryToorDal, EntrySugar>>,
              <<EntryMilk, EntryNoName>>,
              <<EntryMilkUpper, EntryMilk, EntryToorDal>> }

Database(connected, raises, entries) ==
    [connected |-> connected, raises |-> raises, items |-> entries]

\* (cache, db) when extract_items_from_text is called
FetchScenarios ==
    { <<None, Database(TRUE, FALSE, c)>> : c \in Catalogs }
    \cup { <<None, Database(FALSE, FALSE, <<EntryMilk, EntryToorDal>>)>>,
           <<None, Database(TRUE, TRUE, <<EntryMilk, EntryToorDal>>)>>,
           <<Some(<<EntryMilk>>), Database(TRUE, FALSE, <<EntryMilk, EntryToorDal>>)>>,
           <<Some(<<>>), Database(TRUE, FALSE, <<EntryMilk, EntryToorDal>>)>> }

\* (text, confidence in hundredths)
LinePool == { <<"amul milk", 88>>,
              <<"Toor Dal x 2 kgs", 90>>,
              <<"Sugar: 2k", 25>>,
              <<"milk", 24>>,
              <<"a 2 kg", 90>>,
              <<"12 34", 90>>,
              <<" K ", 90>> }

\* no element twice
Distinct(f) == \A i, j \in DOMAIN f : i # j => f[i] # f[j]

\* up to MaxLines different lines of the pool, in every order
LineInputs(max) ==
    UNION { { [k \in 1..n |-> <<l[k][1], l[k][2] * ConfDen>>] :
              l \in { f \in [1..n -> LinePool] : Distinct(f) } } :
            n \in 0..max }

\* reconstruct_receipt_lines is not in use
LinesIdle ==
    /\ ocr_results = <<>>
    /\ sorted_results = <<>>
    /\ lines = <<>>
    /\ current_line = <<>>
    /\ current_y = None
    /\ ri = 1
    /\ rl_pc = "idle"

InitExtract ==
    /\ LinesIdle
    /\ UploadIdle
    /\ \E f \in FetchScenarios : cache = f[1] /\ db = f[2]
    /\ texts_with_confidence \in LineInputs(MaxLines)
    /\ inventory_items = <<>>
    /\ items = <<>>
    /\ ti = 1
    /\ ex_pc = "call"
    /\ FuzzyIdle
    /\ CleanIdle
    /\ ConcurrentIdle
    /\ DistanceIdle
    /\ KiranaIdle
    /\ StoreIdle
    /\ TimedIdle

NextExtract == EX_Fetch \/ EX_Line \/ EX_Return

SpecExtract == InitExtract /\ [][NextExtract]_vars

--------------------------------------------------------------------------
(* Lines with a unit *)

\* unitSize is an abbreviation the map of extract_items_from_text knows
EntrySoap == CatalogEntry("id8", "I8", "Soap", "Lux", "Personal Care", "pcs")

UnitCatalogs == { <<>>, <<EntryMilk, EntrySoap>>, <<EntryToorDal>> }

UnitLinePool == { <<"milk 2 pcs", 90>>,
                  <<"soap x 3 pcs", 90>>,
                  <<"toor dal 1 kgs", 85>>,
                  <<"oil 1 l", 80>>,
                  <<"milk", 80>> }

UnitLineInputs(max) ==
    UNION { { [k \in 1..n |-> <<l[k][1], l[k][2] * ConfDen>>] :
              l \in { f \in [1..n -> UnitLinePool] : Distinct(f) } } :
            n \in 0..max }

InitUnits ==
    /\ LinesIdle
    /\ UploadIdle
    /\ FuzzyIdle
    /\ CleanIdle
    /\ ConcurrentIdle
    /\ DistanceIdle
    /\ KiranaIdle
    /\ StoreIdle
    /\ TimedIdle
    /\ cache = None
    /\ \E c \in UnitCatalogs : db = Database(TRUE, FALSE, c)
    /\ texts_with_confidence \in UnitLineInputs(MaxLines)
    /\ inventory_items = <<>>
    /\ items = <<>>
    /\ ti = 1
    /\ ex_pc = "call"

SpecUnits == InitUnits /\ [][NextExtract]_vars

--------------------------------------------------------------------------
(* Names at different distances from entries of different lengths *)

EntryBasmati == CatalogEntry("id7", "I7", "Basmati Rice", "India Gate", "", "kg")
EntryMoongDal == CatalogEntry("id9", "I9", "Moong Dal", "NA", "Pulses", "kg")

LengthCatalogs == { <<EntryBasmati, EntryMoongDal>>,
                    <<EntryMoongDal, EntryBasmati>>,
                    <<EntryMilk, EntryToorDal>> }

LengthLinePool == { <<"rice 2 kg", 90>>,
                    <<"rice", 85>>,
                    <<"moong dal x 1", 90>>,
                    <<"milk 1 ltr", 80>> }

LengthLineInputs(max) ==
    UNION { { [k \in 1..n |-> <<l[k][1], l[k][2] * ConfDen>>] :
              l \in { f \in [1..n -> LengthLinePool] : Distinct(f) } } :
            n \in 0..max }

InitLengths ==
    /\ LinesIdle
    /\ UploadIdle
    /\ FuzzyIdle
    /\ CleanIdle
    /\ ConcurrentIdle
    /\ DistanceIdle
    /\ KiranaIdle
    /\ StoreIdle
    /\ TimedIdle
    /\ cache = None
    /\ \E c \in LengthCatalogs : db = Database(TRUE, FALSE, c)
    /\ texts_with_confidence \in LengthLineInputs(MaxLines)
    /\ inventory_items = <<>>
    /\ items = <<>>
    /\ ti = 1
    /\ ex_pc = "call"

SpecLengths == InitLengths /\ [][NextExtract]_vars

--------------------------------------------------------------------------
(* An item name that grows when it is lowercased *)

\* the itemName is U+0130 D L U+0130
EntryDotted == CatalogEntry("id10", "I10", "^DL^", "NA", "Snacks", "pkt")

DottedCatalogs == { <<EntryDotted>>, <<EntryMilk, EntryDotted>>, <<EntryDotted, EntryToorDal>> }

DottedLinePool == { <<"milk", 90>>,
                    <<"idli x 2 pkt", 90>>,
                    <<"dal 1 kg", 85>>,
                    <<"sugar", 80>> }

DottedLineInputs(max) ==
    UNION { { [k \in 1..n |-> <<l[k][1], l[k][2] * ConfDen>>] :
              l \in { f \in [1..n -> DottedLinePool] : Distinct(f) } } :
            n \in 0..max }

InitDotted ==
    /\ LinesIdle
    /\ UploadIdle
    /\ FuzzyIdle
    /\ CleanIdle
    /\ ConcurrentIdle
    /\ DistanceIdle
    /\ KiranaIdle
    /\ StoreIdle
    /\ TimedIdle
    /\ cache = None
    /\ \E c \in DottedCatalogs : db = Database(TRUE, FALSE, c)
    /\ texts_with_confidence \in DottedLineInputs(MaxLines)
    /\ inventory_items = <<>>
    /\ items = <<>>
    /\ ti = 1
    /\ ex_pc = "call"

--------------------------------------------------------------------------
(* Inputs of fuzzy_match_inventory_item *)

\* itemName stored as a number
EntryNumName == CatalogEntry("id6", "I6", NotStr, "NA", "Grocery", "kg")

FuzzyCatalogs == Catalogs \cup { <<EntryBasmati, EntryNumName, EntryMilk>>,
                                 <<EntryMilk, EntryMilkUpper>> }

FuzzyNames == {"", "?!", "amul milk", "Milk", "toor dal.", "dairy mlk", "rice",
               "basmati", "sugar free", "mi", "ghee"}

\* the values of threshold: accept everything, the default, exact matches only
Thresholds == {FloatZero, default_threshold, FloatOne}

InitFuzzy ==
    /\ LinesIdle
    /\ ExtractIdle
    /\ UploadIdle
    /\ CleanIdle
    /\ ConcurrentIdle
    /\ DistanceIdle
    /\ KiranaIdle
    /\ StoreIdle
    /\ TimedIdle
    /\ extracted_name \in FuzzyNames
    /\ fm_inventory_items \in FuzzyCatalogs
    /\ threshold \in Thresholds
    /\ best_match = None
    /\ best_score = FloatZero
    /\ fi = 1
    /\ fm_pc = "call"

NextFuzzy == FM_Start \/ FM_Item \/ FM_Return

SpecFuzzy == InitFuzzy /\ [][NextFuzzy]_vars

\* the two matchers, one call of either
InitMatch == InitExtract \/ InitFuzzy

NextMatch == NextExtract \/ NextFuzzy

SpecMatch == InitMatch /\ [][NextMatch]_vars

\* the two matchers on names of every kind
InitScores == InitDotted \/ InitFuzzy

SpecScores == InitScores /\ [][NextMatch]_vars

--------------------------------------------------------------------------
(* Inputs of the cleaning steps *)

MaxTextLen == 4

\* upper and lower case, digits, the two kinds of whitespace, a separator,
\* the dot, a character no step keeps
CleanAlphabet == {"a", "K", "5", "0", " ", "\t", "-", ".", "!"}

\* the strings of at most n characters of the alphabet
RECURSIVE Strings(_, _)
Strings(alphabet, n) ==
    IF n = 0 THEN {""}
    ELSE { s \o c : s \in Strings(alphabet, n - 1), c \in alphabet \cup {""} }

InitClean ==
    /\ LinesIdle
    /\ ExtractIdle
    /\ UploadIdle
    /\ FuzzyIdle
    /\ ConcurrentIdle
    /\ DistanceIdle
    /\ KiranaIdle
    /\ StoreIdle
    /\ TimedIdle
    /\ cl_input \in Strings(CleanAlphabet, MaxTextLen)
    /\ cl_outputs = <<>>
    /\ cl_pc \in {"line", "text"}

NextClean == CL_CleanLine \/ CL_CleanText

SpecClean == InitClean /\ [][NextClean]_vars

--------------------------------------------------------------------------
(* Inputs of levenshtein_distance *)

MaxNameLen == 3

NameAlphabet == {"a", "b", "c"}

InitDistance ==
    /\ LinesIdle
    /\ ExtractIdle
    /\ UploadIdle
    /\ FuzzyIdle
    /\ CleanIdle
    /\ ConcurrentIdle
    /\ KiranaIdle
    /\ StoreIdle
    /\ TimedIdle
    /\ lv_s1 \in Strings(NameAlphabet, MaxNameLen)
    /\ lv_s2 \in Strings(NameAlphabet, MaxNameLen)
    /\ lv_forward = None
    /\ lv_backward = None

NextDistance == LV_Forward \/ LV_Backward

SpecDistance == InitDistance /\ [][NextDistance]_vars

--------------------------------------------------------------------------
(* Inputs of generate_unique_kirana_id *)

\* numbers random.randint(100000, 999999) returns: the ends and one between
RandomIds == {100000, 345123, 999999}

\* numbers random.randint(0, 999) returns
RandomSuffixes == {0, 7, 123, 999}

\* values of int(datetime.utcnow().timestamp())
Timestamps == {1793612345, 1793600045, 1793000012, 1794000000}

InitKirana ==
    /\ LinesIdle
    /\ ExtractIdle
    /\ UploadIdle
    /\ FuzzyIdle
    /\ CleanIdle
    /\ ConcurrentIdle
    /\ DistanceIdle
    /\ StoreIdle
    /\ TimedIdle
    /\ ki_collection \in SUBSET RandomIds
    /\ ki_attempts = 0
    /\ ki_returned = None
    /\ ki_pc = "loop"

NextKirana ==
    \/ \E kirana_id \in RandomIds : KI_Attempt(kirana_id)
    \/ \E timestamp \in Timestamps, random_suffix \in RandomSuffixes :
           KI_Fallback(timestamp, random_suffix)

SpecKirana == InitKirana /\ [][NextKirana]_vars

--------------------------------------------------------------------------
(* Inputs of create_bill *)

MaxStock == 2

BillIds == {1, 2}

OpeningPoints == [c \in CustomerIds |-> 5]

\* data['items'] of the first request: nothing, one line, the same item on
\* two lines, two items, a line without quantity, an unknown product, a
\* line without item_id
BillLinePool ==
    { <<>>,
      <<BillLine("A", 1)>>,
      <<BillLine("A", 2), BillLine("A", 1)>>,
      <<BillLine("A", 1), BillLine("B", 1)>>,
      <<BillLine("B", 1), BillLine("A", 0)>>,
      <<BillLine("A", 1), BillLine("X", 1)>>,
      <<BillLine("", 1)>>,
      <<BillLine("B", 2)>> }

\* (customer_id, loyalty_points_used): a walk-in customer, a customer who
\* pays with a point, an id without user document
BillCustomers == { <<None, 0>>, <<Some("c1"), 1>>, <<Some("c9"), 0>> }

BillRequests ==
    { BillRequest(c[1], l, c[2]) : c \in BillCustomers, l \in BillLinePool }

\* the request that runs beside it
OtherBillRequests ==
    { BillRequest(None, <<BillLine("A", 2)>>, 0),
      BillRequest(Some("c1"), <<BillLine("A", 1), BillLine("B", 1)>>, 0),
      BillRequest(None, <<BillLine("B", 1)>>, 0) }

InitBills ==
    /\ LinesIdle
    /\ ExtractIdle
    /\ UploadIdle
    /\ FuzzyIdle
    /\ CleanIdle
    /\ ConcurrentIdle
    /\ DistanceIdle
    /\ KiranaIdle
    /\ TimedIdle
    /\ st_connected \in BOOLEAN
    /\ products = ProductIds
    /\ stockQuantity \in [ProductIds -> 0..MaxStock]
    /\ loyalty_points = OpeningPoints
    /\ bills = <<>>
    /\ receipts = <<>>
    /\ \E first \in BillRequests, other \in OtherBillRequests :
           cb = [p \in BillIds |-> IF p = 1 THEN first ELSE other]
    /\ sr = <<>>

NextBills ==
    \/ \E p \in BillIds : CB_Start(p)
    \/ \E p \in BillIds : CB_Item(p)
    \/ \E p \in BillIds : CB_Transaction(p)
    \/ \E p \in BillIds : CB_TransactionRaises(p)
    \/ \E item_id \in ProductIds : INV_Delete(item_id)

SpecBills == InitBills /\ [][NextBills]_vars

--------------------------------------------------------------------------
(* Inputs of save_receipt_items *)

MaxItems == 3

\* confirmed items with and without a matched document, one whose document
\* is gone, and items the request is rejected for
ReceiptItemPool ==
    { ReceiptItem("milk", Some(2), "ltr", Some("A")),
      ReceiptItem("dal", Some(1), "kg", Some("B")),
      ReceiptItem("soap", Some(1), "pc", None),
      ReceiptItem("rice", Some(1), "kg", Some("X")),
      ReceiptItem("", Some(1), "kg", Some("A")),
      ReceiptItem("milk", None, "ltr", Some("A")),
      ReceiptItem("dal", Some(0), "kg", Some("B")),
      ReceiptItem("milk", Some(1), Absent, Some("A")) }

ReceiptItemLists ==
    UNION { [1..n -> ReceiptItemPool] : n \in 0..MaxItems }

\* the stockQuantity of every document before the request
ReceiptOpeningStock == [i \in ProductIds |-> 1]

InitReceipts ==
    /\ LinesIdle
    /\ ExtractIdle
    /\ UploadIdle
    /\ FuzzyIdle
    /\ CleanIdle
    /\ ConcurrentIdle
    /\ DistanceIdle
    /\ KiranaIdle
    /\ TimedIdle
    /\ st_connected \in BOOLEAN
    /\ products = ProductIds
    /\ stockQuantity = ReceiptOpeningStock
    /\ loyalty_points = OpeningPoints
    /\ bills = <<>>
    /\ receipts = <<>>
    /\ cb = <<>>
    /\ \E items_ \in ReceiptItemLists : sr = ReceiptRequest(items_)

NextReceipts ==
    \/ SR_Start
    \/ SR_Item
    \/ SR_Insert

SpecReceipts == InitReceipts /\ [][NextReceipts]_vars

--------------------------------------------------------------------------
(* Inputs of the timed cache *)

MaxClock == 750

\* the seconds the timer advances between two steps
Ticks == {150}

CallerIds == {1, 2}

\* the projections the collection goes through
CacheCatalogs == { <<>>, <<EntryMilk, EntryToorDal>>, <<EntryToorDal, EntrySugar>> }

\* the timer advances
TC_Tick(d) ==
    /\ tc_call # <<>>
    /\ tc_now + d <= MaxClock
    /\ tc_now' = tc_now + d
    /\ UNCHANGED <<rl_vars, db_vars, ex_vars, up_vars, fm_vars, cl_vars, cu_vars, lv_vars,
                   ki_vars, st_vars, cb_vars, sr_vars, tc_expires, tc_call>>

InitTimed ==
    /\ LinesIdle
    /\ UploadIdle
    /\ FuzzyIdle
    /\ CleanIdle
    /\ ConcurrentIdle
    /\ DistanceIdle
    /\ KiranaIdle
    /\ StoreIdle
    /\ texts_with_confidence = <<>>
    /\ inventory_items = <<>>
    /\ items = <<>>
    /\ ti = 1
    /\ ex_pc = "idle"
    /\ cache = None
    /\ db \in { Database(TRUE, FALSE, c) : c \in CacheCatalogs }
              \cup { Database(FALSE, FALSE, <<EntryMilk, EntryToorDal>>),
                     Database(TRUE, TRUE, <<EntryMilk, EntryToorDal>>) }
    /\ tc_now = 0
    /\ tc_expires = None
    /\ tc_call = [p \in CallerIds |-> CallDone("none", None, FALSE)]

NextTimed ==
    \/ \E p \in CallerIds : TC_Contains(p)
    \/ \E p \in CallerIds : TC_GetItem(p)
    \/ \E p \in CallerIds : TC_Fetch(p)
    \/ \E entries \in CacheCatalogs : TC_InventoryChanges(entries)
    \/ \E d \in Ticks : TC_Tick(d)

SpecTimed == InitTimed /\ [][NextTimed]_vars

--------------------------------------------------------------------------
(* Inputs of upload_receipt *)

UploadFragments ==
    { Fragment(Box(10, 100, 20, 4), "amul", 90 * ConfDen),
      Fragment(Box(60, 102, 20, 4), "milk", 85 * ConfDen),
      Fragment(Box(10, 200, 20, 4), "toor dal", 80 * ConfDen),
      Fragment(Box(60, 300, 20, 2), "kg", 50 * ConfDen) }

\* up to MaxFrags different fragments, in every order
UploadOcrOutputs(max) ==
    UNION { { f \in [1..n -> UploadFragments] : Distinct(f) } : n \in 0..max }

GoodRequest == Request(TRUE, TRUE, "bill.jpg", 1000, TRUE, TRUE, TRUE)

Requests ==
    { GoodRequest,
      [GoodRequest EXCEPT !.reader_ok = FALSE],
      [GoodRequest EXCEPT !.has_file = FALSE],
      [GoodRequest EXCEPT !.filename = ""],
      [GoodRequest EXCEPT !.filename = "bill.exe"],
      [GoodRequest EXCEPT !.filename = "bill"],
      [GoodRequest EXCEPT !.filename = "old.bill.PNG", !.ocr_ok = FALSE],
      [GoodRequest EXCEPT !.size = MAX_FILE_SIZE + 1],
      [GoodRequest EXCEPT !.size = MAX_FILE_SIZE, !.ocr_ok = FALSE],
      [GoodRequest EXCEPT !.save_ok = FALSE],
      [GoodRequest EXCEPT !.preprocess_ok = FALSE],
      [GoodRequest EXCEPT !.ocr_ok = FALSE] }

UploadDatabases ==
    { Database(TRUE, FALSE, <<EntryMilk, EntryToorDal>>),
      Database(FALSE, FALSE, <<EntryMilkUpper, EntryToorDal>>),
      Database(TRUE, TRUE, <<EntryMilk, EntryToorDal>>),
      Database(TRUE, FALSE, <<>>) }

InitUpload ==
    /\ LinesIdle
    /\ db \in UploadDatabases
    /\ cache = None
    /\ texts_with_confidence = <<>>
    /\ inventory_items = <<>>
    /\ items = <<>>
    /\ ti = 1
    /\ ex_pc = "idle"
    /\ request \in Requests
    /\ reconstructed_lines = <<>>
    /\ individual_fragments = <<>>
    /\ items_from_lines = <<>>
    /\ response = None
    /\ up_pc = "start"
    /\ FuzzyIdle
    /\ CleanIdle
    /\ ConcurrentIdle
    /\ DistanceIdle
    /\ KiranaIdle
    /\ StoreIdle
    /\ TimedIdle

NextUpload ==
    \/ UP_Validate
    \/ UP_ReadText(UploadOcrOutputs(MaxFrags))
    \/ RL_Sort
    \/ RL_Step
    \/ RL_Return
    \/ UP_AfterReconstruct
    \/ EX_Fetch
    \/ EX_Line
    \/ EX_Return
    \/ UP_AfterLines
    \/ UP_Respond
    \/ DB_Recovers

Spec == InitUpload /\ [][NextUpload]_vars

--------------------------------------------------------------------------
(* Inputs of the concurrent requests *)

MaxUploads == 2

UploadIds == 1..MaxUploads

\* secure_filename leaves these names as they are
ConcurrentNames == {"bill.jpg", "shop.jpg", "bill_processed.jpg"}

Paths == { TempPath(f) : f \in ConcurrentNames }
         \cup { ProcessedPath(TempPath(f)) : f \in ConcurrentNames }

InitConcurrent ==
    /\ LinesIdle
    /\ ExtractIdle
    /\ UploadIdle
    /\ FuzzyIdle
    /\ CleanIdle
    /\ DistanceIdle
    /\ KiranaIdle
    /\ StoreIdle
    /\ TimedIdle
    /\ fs = [path \in Paths |-> None]
    /\ \E names \in [UploadIds -> ConcurrentNames] :
          req = [p \in UploadIds |->
                   [filename |-> names[p], pc |-> "save", img |-> None,
                    ocr_image |-> None, status |-> 0]]

NextConcurrent ==
    \E p \in UploadIds :
        \/ CU_Save(p)
        \/ CU_Imread(p)
        \/ CU_Imwrite(p)
        \/ CU_ReadText(p)
        \/ CU_RemoveTemp(p)
        \/ CU_RemoveProcessed(p)

SpecConcurrent == InitConcurrent /\ [][NextConcurrent]_vars

--------------------------------------------------------------------------
(* Malformed polygons: every fragment may have 0 to 4 corner points *)

PolyYs == {100, 130}
PolyNpts == 0..4

PolyInputs(max) ==
    UNION { { [k \in 1..n |-> GeomFragment(k, 10, g[k][1], 20, g[k][2])] :
              g \in [1..n -> PolyYs \X PolyNpts] } : n \in 0..max }

InitPoly ==
    /\ ocr_results \in PolyInputs(MaxFrags)
    /\ sorted_results = <<>>
    /\ lines = <<>>
    /\ current_line = <<>>
    /\ current_y = None
    /\ ri = 1
    /\ rl_pc = "call"
    /\ ExtractIdle
    /\ UploadIdle
    /\ FuzzyIdle
    /\ CleanIdle
    /\ ConcurrentIdle
    /\ DistanceIdle
    /\ KiranaIdle
    /\ StoreIdle
    /\ TimedIdle

SpecPoly == InitPoly /\ [][NextLines]_vars

--------------------------------------------------------------------------
(* Fragments with blank texts *)

BlankYs == {100, 110, 130}
BlankTexts == {"", "  ", "milk", "dal"}

\* the k-th fragment: a free text at a free height, its own confidence
BlankInputs(max) ==
    UNION { { [k \in 1..n |-> Fragment(Box(10 * k, g[k][1], 20, 4), g[k][2],
                                       FragConfs[k] * ConfDen)] :
              g \in [1..n -> BlankYs \X BlankTexts] } : n \in 0..max }

InitBlank ==
    /\ ocr_results \in BlankInputs(MaxFrags)
    /\ sorted_results = <<>>
    /\ lines = <<>>
    /\ current_line = <<>>
    /\ current_y = None
    /\ ri = 1
    /\ rl_pc = "call"
    /\ ExtractIdle
    /\ UploadIdle
    /\ FuzzyIdle
    /\ CleanIdle
    /\ ConcurrentIdle
    /\ DistanceIdle
    /\ KiranaIdle
    /\ StoreIdle
    /\ TimedIdle

SpecBlank == InitBlank /\ [][NextLines]_vars

--------------------------------------------------------------------------
(* Properties of reconstruct_receipt_lines *)

\* the words of a reconstructed line: its text cut at every single space
Words(s) == SplitOn(s, " ", "")

\* the supplied fragment a word of a line comes from (the texts of the
\* supplied fragments are pairwise distinct and hold no space)
FragOfWord(w) == CHOOSE k \in 1..Len(ocr_results) : ocr_results[k].text = w

HorizontalOrigin(r) == r.bbox[1][1]

\* twice the vertical center, in pixels: y of the first plus y of the third corner
TwiceCenter(r) == r.bbox[1][2] + r.bbox[3][2]

WellFormed(s) == \A k \in 1..Len(s) : Len(s[k].bbox) = 4

\* C2: when reconstruct_receipt_lines has returned, the words of every line
\* are in ascending order of the horizontal origin of their fragments.
C2_LeftToRight ==
    rl_pc = "done" =>
        \A l \in 1..Len(lines) :
            LET w == Words(lines[l][1])
            IN \A i, j \in 1..Len(w) :
                 i < j => HorizontalOrigin(ocr_results[FragOfWord(w[i])])
                            <= HorizontalOrigin(ocr_results[FragOfWord(w[j])])

\* each vertical center within y_tolerance of its predecessor's in s
ChainWithinTolerance(s) ==
    \A k \in 2..Len(s) :
        Abs(TwiceCenter(s[k]) - TwiceCenter(s[k - 1])) <= 2 * y_tolerance

\* C3 as stated: fragments each within y_tolerance of their immediate
\* predecessor (in the order supplied and in the order processed) all end
\* up in a single line.
C3_PredecessorChainOneLine ==
    (/\ rl_pc = "done"
     /\ Len(ocr_results) >= 1
     /\ ChainWithinTolerance(ocr_results)
     /\ ChainWithinTolerance(sorted_results))
    => Len(lines) = 1

\* the running midpoint after the first k fragments of s, in 1/YScale pixels
RECURSIVE RunningMidpoint(_, _)
RunningMidpoint(s, k) ==
    IF k = 1 THEN (TwiceCenter(s[1]) * YScale) \div 2
    ELSE (RunningMidpoint(s, k - 1) + (TwiceCenter(s[k]) * YScale) \div 2) \div 2

\* each vertical center within y_tolerance of the running midpoint of the
\* fragments processed before it
ChainWithinMidpoint(s) ==
    \A k \in 2..Len(s) :
        Abs((TwiceCenter(s[k]) * YScale) \div 2 - RunningMidpoint(s, k - 1))
            <= y_tolerance * YScale

\* C3 amended: fragments that are, in processing order, each within
\* y_tolerance of the running midpoint of those before them all end up in
\* a single line, however far the first and last centers are apart.
C3_MidpointChainOneLine ==
    (/\ rl_pc = "done"
     /\ Len(ocr_results) >= 1
     /\ ChainWithinMidpoint(sorted_results))
    => /\ Len(lines) = 1
       /\ Len(Words(lines[1][1])) = Len(ocr_results)

\* a single line whose first and last centers differ by more than y_tolerance
C3_DriftWitness ==
    /\ rl_pc = "done"
    /\ Len(sorted_results) = 3
    /\ ChainWithinMidpoint(sorted_results)
    /\ Abs(TwiceCenter(sorted_results[3]) - TwiceCenter(sorted_results[1]))
         > 2 * y_tolerance
    /\ Len(lines) = 1

\* C4: two fragments give one line when their vertical centers differ by
\* y_tolerance or less and two lines when they differ by more.
C4_ToleranceBoundary ==
    (rl_pc = "done" /\ Len(ocr_results) = 2) =>
        LET d == Abs(TwiceCenter(ocr_results[1]) - TwiceCenter(ocr_results[2]))
        IN IF d <= 2 * y_tolerance THEN Len(lines) = 1 ELSE Len(lines) = 2

\* two fragments exactly y_tolerance apart, returned as one line
C4_ExactToleranceWitness ==
    /\ rl_pc = "done"
    /\ Len(ocr_results) = 2
    /\ Abs(TwiceCenter(ocr_results[1]) - TwiceCenter(ocr_results[2])) = 2 * y_tolerance
    /\ Len(lines) = 1

\* C9: reconstruct_receipt_lines never returns lines for an input holding
\* a polygon of fewer than 4 corner points.
C9_MalformedNeverReturns ==
    (\E k \in 1..Len(ocr_results) : Len(ocr_results[k].bbox) < 4) => rl_pc # "done"

--------------------------------------------------------------------------
(* Properties of extract_items_from_text *)

Matched(it) == ~IsNone(it.fuzzy_match)

\* C1: every emitted item with a non-null fuzzy_match has a similarity
\* score of at least 0.5 (500 thousandths).
C1_MatchedAboveThreshold ==
    \A k \in 1..Len(items) :
        Matched(items[k]) => Val(items[k].fuzzy_match).similarity_score >= 500

\* the catalog fetch returned no entries
NoCatalog == ex_pc \in {"loop", "done"} /\ inventory_items = <<>>

\* the line passes the confidence and length filters and fits a pattern
\* with an accepted name
FitsPattern(l) ==
    /\ l[2] >= min_confidence * ConfDen
    /\ Len(Strip(Lower(l[1]))) >= 2
    /\ ~IsNone(FirstPattern(1, CleanLine(Strip(Lower(l[1])))))

RECURSIVE CountFitting(_, _)
CountFitting(ls, n) ==
    IF n = 0 THEN 0
    ELSE CountFitting(ls, n - 1) + (IF FitsPattern(ls[n]) THEN 1 ELSE 0)

\* C7: with no catalog entries the lines processed so far gave exactly one
\* item per line that fits a pattern, every item without a match, and the
\* call runs to its return; fuzzy_match_inventory_item called with an empty
\* catalog returns None at once, without raising.
C7_EmptyCatalogUnmatched ==
    /\ NoCatalog =>
          /\ Len(items) = CountFitting(texts_with_confidence, ti - 1)
          /\ \A k \in 1..Len(items) : ~Matched(items[k])
          /\ ex_pc = "done" => ti = Len(texts_with_confidence) + 1
    /\ (fm_pc \notin {"idle", "call"} /\ fm_inventory_items = <<>>) =>
          fm_pc = "done" /\ IsNone(best_match)

\* an unavailable catalog (no connection or a failing query), two items out
C7_UnavailableWitness ==
    /\ ex_pc = "done"
    /\ inventory_items = <<>>
    /\ ~db.connected \/ db.raises
    /\ db.items # <<>>
    /\ Len(items) = 2
    /\ \A k \in 1..Len(items) : ~Matched(items[k])

\* the line raises while it is matched against inv
LineRaises(l, inv) == LineOutcome(l[1], l[2], inv, None).kind = "raised"

RECURSIVE WithoutRaising(_, _)
WithoutRaising(ls, inv) ==
    IF ls = <<>> THEN <<>>
    ELSE (IF LineRaises(Head(ls), inv) THEN <<>> ELSE <<Head(ls)>>)
         \o WithoutRaising(Tail(ls), inv)

\* the item lists extract_items_from_text can return for lines none of
\* which raises (one list per choice of the unit fallback's replies)
RECURSIVE Returnable(_, _)
Returnable(ls, inv) ==
    IF ls = <<>> THEN {<<>>}
    ELSE LET first == { LineOutcome(Head(ls)[1], Head(ls)[2], inv, r) : r \in GeminiReplies }
         IN { (IF o.kind = "item" THEN <<Val(o.item)>> ELSE <<>>) \o rest :
              o \in first, rest \in Returnable(Tail(ls), inv) }

\* C8: the call returns, and what it returns is what it returns for the
\* input without the lines that raise.
C8_RaisingLineOnlySkipped ==
    ex_pc = "done" =>
        items \in Returnable(WithoutRaising(texts_with_confidence, inventory_items),
                             inventory_items)

\* a raising line between two lines that give an item
C8_MiddleLineRaisesWitness ==
    /\ ex_pc = "done"
    /\ Len(texts_with_confidence) = 3
    /\ ~LineRaises(texts_with_confidence[1], inventory_items)
    /\ LineRaises(texts_with_confidence[2], inventory_items)
    /\ ~LineRaises(texts_with_confidence[3], inventory_items)
    /\ Len(items) = 2

\* the catalog entry a matched item identifies
EntryOf(it) ==
    CHOOSE k \in 1..Len(inventory_items) :
        inventory_items[k].id = Val(it.fuzzy_match).inventory_id

\* C10: a matched item carries the itemName of the catalog entry its
\* fuzzy_match identifies, with that entry's itemId; an unmatched item
\* carries the title-cased extracted name.
C10_ItemNameSource ==
    \A k \in 1..Len(items) :
        LET it == items[k]
        IN IF Matched(it)
           THEN /\ \E e \in 1..Len(inventory_items) :
                     inventory_items[e].id = Val(it.fuzzy_match).inventory_id
                /\ it.item = inventory_items[EntryOf(it)].itemName
                /\ Val(it.fuzzy_match).item_id = inventory_items[EntryOf(it)].itemId
           ELSE \E l \in 1..Len(texts_with_confidence) :
                  LET mt == FirstPattern(1, CleanLine(Strip(Lower(texts_with_confidence[l][1]))))
                  IN ~IsNone(mt) /\ it.item = Title(Val(mt)[1])

\* an item whose catalog name differs from the text it was extracted from
C10_CanonicalNameWitness ==
    /\ ex_pc = "done"
    /\ \E k \in 1..Len(items) :
         /\ Matched(items[k])
         /\ Lower(items[k].item) # Val(items[k].fuzzy_match).original_extracted
         /\ items[k].item = "Milk"

--------------------------------------------------------------------------
(* Properties of upload_receipt *)

\* upload_receipt has answered 200
Answered == up_pc = "done" /\ ~IsNone(response) /\ Val(response).status = 200

\* extract_items_from_text has returned the items of the reconstructed
\* lines
LinesExtracted == up_pc = "lines" /\ ex_pc = "done"

\* the items matched to the catalog entry id
MatchesOf(id) ==
    { k \in 1..Len(items) :
        Matched(items[k]) /\ Val(items[k].fuzzy_match).inventory_id = id }

HasLine(text) == \E l \in 1..Len(reconstructed_lines) : reconstructed_lines[l][1] = text

\* C5: with the catalog [Milk by Amul, Toor Dal by NA], a reconstructed line
\* 'amul milk' gives an item matched to Milk with similarity 1.0 through the
\* field 'brand_name', and a line 'toor dal' gives an item matched to Toor
\* Dal with similarity 1.0.
C5_BrandNameScenario ==
    (LinesExtracted /\ inventory_items = <<EntryMilk, EntryToorDal>>) =>
        /\ HasLine("amul milk") =>
              \E k \in MatchesOf(EntryMilk.id) :
                  /\ items[k].item = "Milk"
                  /\ Val(items[k].fuzzy_match).original_extracted = "amul milk"
                  /\ Val(items[k].fuzzy_match).similarity_score = 1000
                  /\ Val(items[k].fuzzy_match).matched_field = "brand_name"
        /\ HasLine("toor dal") =>
              \E k \in MatchesOf(EntryToorDal.id) :
                  /\ items[k].item = "Toor Dal"
                  /\ Val(items[k].fuzzy_match).original_extracted = "toor dal"
                  /\ Val(items[k].fuzzy_match).similarity_score = 1000

\* the positions of all_items whose name, ignoring case, occurs at no
\* earlier position
FirstOccurrences(all_items) ==
    { k \in 1..Len(all_items) :
        \A j \in 1..(k - 1) : Lower(all_items[j].item) # Lower(all_items[k].item) }

\* the number of first occurrences among the first n positions
CountFirst(all_items, n) == Cardinality(FirstOccurrences(all_items) \cap 1..n)

\* C6: the returned items have pairwise different names ignoring case, and
\* they are the first occurrences of the items from the lines followed by
\* the items from the fragments, in that order.
C6_FirstOccurrencesOnly ==
    Answered =>
        LET all_items == items_from_lines \o items
            returned == Val(response).items
        IN /\ \A i, j \in 1..Len(returned) :
                  i # j => Lower(returned[i].item) # Lower(returned[j].item)
           /\ Len(returned) = Cardinality(FirstOccurrences(all_items))
           /\ \A k \in FirstOccurrences(all_items) :
                  returned[CountFirst(all_items, k)] = all_items[k]
           /\ Val(response).total_items = Len(returned)

\* a fragment's item dropped for a line's item of the same name in another
\* case
C6_CaseDuplicateWitness ==
    /\ Answered
    /\ Len(Val(response).items) = 1
    /\ Len(items_from_lines) = 1
    /\ Len(items) = 1
    /\ items_from_lines[1].item # items[1].item
    /\ Lower(items_from_lines[1].item) = Lower(items[1].item)
    /\ Val(response).items[1] = items_from_lines[1]

--------------------------------------------------------------------------
(* Properties of fuzzy_match_inventory_item *)

\* the call got past the early returns of lines 331-336
LoopEntered ==
    /\ fm_inventory_items # <<>>
    /\ extracted_name # ""
    /\ clean_text(extracted_name) # ""

\* the highest max_similarity over the entries of inv
RECURSIVE HighestScore(_, _)
HighestScore(name, inv) ==
    IF inv = <<>> THEN FloatZero
    ELSE FloatMax(ItemScores(name, Head(inv)).max_similarity,
                 HighestScore(name, Tail(inv)))

\* C11: when the loop over the catalog has run to the return, a match is
\* returned exactly when the highest entry score is at least the threshold
\* (equality accepted), and a returned similarity_score is never below the
\* threshold.
C11_MatchIffBestAtThreshold ==
    (fm_pc = "done" /\ LoopEntered) =>
        /\ (~IsNone(best_match)) <=>
               FloatLE(threshold, HighestScore(extracted_name, fm_inventory_items))
        /\ (~IsNone(best_match)) =>
               FloatLE(threshold, Val(best_match).similarity_score)

--------------------------------------------------------------------------
(* Properties of the cleaning steps *)

\* C12: an application of the cleaning steps (of extract_items_from_text
\* or of clean_text) to the output of an earlier application returns that
\* output unchanged.
C12_CleaningIdempotent ==
    \A k \in 2..Len(cl_outputs) : cl_outputs[k] = cl_outputs[k - 1]

\* a line every step changes, cleaned twice
C12_ExpandedLineWitness ==
    /\ cl_pc = "line"
    /\ cl_input = "5K-a"
    /\ cl_outputs = <<"5000 x a", "5000 x a">>

--------------------------------------------------------------------------
(* Properties of concurrent requests *)

InFlight(p) == req[p].pc # "done"

\* C13: every request's preprocessing reads the image the request saved
\* and its OCR reads the preprocessing of that image; the temporary files
\* of a request in flight hold its own image from the moment it wrote them
\* until it removes them.
C13_NoInterference ==
    \A p \in DOMAIN req :
        /\ ~IsNone(req[p].img) => Val(req[p].img) = Raw(p)
        /\ ~IsNone(req[p].ocr_image) => Val(req[p].ocr_image) = Processed(Raw(p))
        /\ req[p].pc \in {"imread", "imwrite", "readtext", "remove_temp"} =>
              fs[TempPath(req[p].filename)] = Some(Raw(p))
        /\ req[p].pc \in {"readtext", "remove_temp", "remove_processed"} =>
              fs[ProcessedPath(TempPath(req[p].filename))] = Some(Processed(Raw(p)))

--------------------------------------------------------------------------
(* Properties of the lines of reconstruct_receipt_lines *)

\* the fragments of the reconstructed line l, in the order of its words
LineFragments(l) ==
    LET w == Words(lines[l][1])
    IN [k \in 1..Len(w) |-> ocr_results[FragOfWord(w[k])]]

\* the order by vertical center, then by horizontal origin
CenterKeyLE(r1, r2) ==
    \/ TwiceCenter(r1) < TwiceCenter(r2)
    \/ TwiceCenter(r1) = TwiceCenter(r2) /\ HorizontalOrigin(r1) <= HorizontalOrigin(r2)

\* C14: the fragments are processed in non-decreasing order of vertical
\* center, equal centers in ascending order of horizontal origin, and the
\* lines returned are in ascending order of the vertical centers of their
\* fragments.
C14_ProcessedByCenter ==
    /\ rl_pc \in {"loop", "done"} =>
          \A i, j \in 1..Len(sorted_results) :
              i < j => CenterKeyLE(sorted_results[i], sorted_results[j])
    /\ rl_pc = "done" =>
          \A l, m \in 1..Len(lines) :
              l < m => TwiceCenter(LineFragments(l)[1]) <= TwiceCenter(LineFragments(m)[1])

\* the vertical center in 1/YScale pixels
Center(r) == (TwiceCenter(r) * YScale) \div 2

\* C15: in every line closed so far each fragment after the first is
\* within y_tolerance of the running midpoint of the fragments of the line
\* before it, and the first fragment of every line after the first is more
\* than y_tolerance away from the final running midpoint of the line before.
C15_ChainInvariant ==
    rl_pc \in {"loop", "done"} =>
        \A l \in 1..Len(lines) :
            LET f == LineFragments(l)
            IN /\ \A k \in 2..Len(f) :
                     Abs(Center(f[k]) - RunningMidpoint(f, k - 1)) <= y_tolerance * YScale
               /\ l > 1 =>
                     LET before == LineFragments(l - 1)
                     IN Abs(Center(f[1]) - RunningMidpoint(before, Len(before)))
                          > y_tolerance * YScale

\* a fragment within y_tolerance of the fragment before it, yet more than
\* y_tolerance away from the running midpoint, starts the second line
C15_NewLineNearPredecessorWitness ==
    /\ rl_pc = "done"
    /\ Len(sorted_results) = 3
    /\ Len(lines) = 2
    /\ Len(Words(lines[1][1])) = 2
    /\ Abs(TwiceCenter(sorted_results[3]) - TwiceCenter(sorted_results[2]))
         <= 2 * y_tolerance

\* the positions in the lines returned at which the text of fragment r is
PlacesOf(r) ==
    { place \in UNION { {l} \X (1..Len(Words(lines[l][1]))) : l \in 1..Len(lines) } :
        Words(lines[place[1]][1])[place[2]] = r.text }

RECURSIVE WordCount(_)
WordCount(l) == IF l = 0 THEN 0 ELSE WordCount(l - 1) + Len(Words(lines[l][1]))

\* C16: the call does not raise; when it has returned, every fragment is
\* in exactly one place of exactly one line, the lines hold nothing else,
\* no line is empty, no fragments give no lines and one fragment gives one
\* line holding it.
C16_EveryFragmentOnce ==
    /\ rl_pc # "raised"
    /\ rl_pc = "done" =>
          /\ \A k \in 1..Len(ocr_results) : Cardinality(PlacesOf(ocr_results[k])) = 1
          /\ WordCount(Len(lines)) = Len(ocr_results)
          /\ \A l \in 1..Len(lines) : lines[l][1] # ""
          /\ Len(ocr_results) = 0 => lines = <<>>
          /\ Len(ocr_results) = 1 =>
                Len(lines) = 1 /\ lines[1][1] = ocr_results[1].text

\* three fragments, the last two in the trailing line
C16_TrailingLineWitness ==
    /\ rl_pc = "done"
    /\ Len(ocr_results) = 3
    /\ Len(lines) = 2
    /\ Len(Words(lines[2][1])) = 2

\* the fragments accumulated in line l: those processed after the
\* fragments of the lines before it
Accumulated(l) ==
    SubSeq(sorted_results, WordCount(l - 1) + 1, WordCount(l))

RECURSIVE TextsJoined(_)
TextsJoined(f) ==
    IF Len(f) = 1 THEN f[1].text
    ELSE TextsJoined(SubSeq(f, 1, Len(f) - 1)) \o " " \o f[Len(f)].text

RECURSIVE ConfidenceSum(_)
ConfidenceSum(f) == IF f = <<>> THEN 0 ELSE f[1].conf + ConfidenceSum(Tail(f))

\* C17: the text of every line closed so far is the texts of the fragments
\* accumulated in it, in that order, with one space between two, and its
\* confidence times their number is the sum of their confidences.
C17_JoinedTextMeanConfidence ==
    rl_pc \in {"loop", "done"} =>
        \A l \in 1..Len(lines) :
            /\ WordCount(l) <= ri - 1
            /\ lines[l][1] = TextsJoined(Accumulated(l))
            /\ lines[l][2] * Len(Accumulated(l)) = ConfidenceSum(Accumulated(l))

\* 'milk' (0.85) processed before 'amul' (0.90): one line, confidence 0.875
C17_MeanOfTwoWitness ==
    /\ rl_pc = "done"
    /\ Len(ocr_results) = 2
    /\ Len(lines) = 1
    /\ lines[1][1] = "milk amul"
    /\ 2 * lines[1][2] = 175 * ConfDen

\* the text is empty or whitespace only
IsBlank(text) == Strip(text) = ""

RECURSIVE WithoutBlank(_)
WithoutBlank(f) ==
    IF f = <<>> THEN <<>>
    ELSE (IF IsBlank(Head(f).text) THEN <<>> ELSE <<Head(f)>>) \o WithoutBlank(Tail(f))

\* the line of the fragments group
LineOfGroup(group) == <<TextsJoined(group), ConfidenceSum(group) \div Len(group)>>

\* the lines of the fragments rest, processed in this order after the
\* lines closed, the fragments group of the open line and its running
\* vertical value y
RECURSIVE Grouped(_, _, _, _)
Grouped(rest, closed, group, y) ==
    IF rest = <<>>
    THEN (IF group = <<>> THEN closed ELSE Append(closed, LineOfGroup(group)))
    ELSE IF group = <<>>
         THEN Grouped(Tail(rest), closed, <<Head(rest)>>, Center(Head(rest)))
    ELSE IF Abs(Center(Head(rest)) - y) <= y_tolerance * YScale
         THEN Grouped(Tail(rest), closed, Append(group, Head(rest)),
                      (y + Center(Head(rest))) \div 2)
    ELSE Grouped(Tail(rest), Append(closed, LineOfGroup(group)), <<Head(rest)>>,
                 Center(Head(rest)))

\* C18: the lines returned are the lines of the fragments whose text is
\* not blank: a blank fragment adds nothing to a text, to an averaged
\* confidence or to the running vertical value.
C18_BlankFragmentsFiltered ==
    rl_pc = "done" => lines = Grouped(WithoutBlank(sorted_results), <<>>, <<>>, 0)

--------------------------------------------------------------------------
(* Properties of the filters of extract_items_from_text *)

\* the line is below the minimum confidence or, lowercased and trimmed,
\* shorter than 2 characters
Rejected(l) == l[2] < min_confidence * ConfDen \/ Len(Strip(Lower(l[1]))) < 2

\* the loop goes from the line at ti to the next one
LineProcessed == ex_pc = "loop" /\ ti <= Len(texts_with_confidence) /\ ti' # ti

\* C19: the step of the loop on a rejected line leaves items as it is; the
\* step on a line of confidence exactly 0.25 that fits a pattern and does
\* not raise appends an item.
C19_RejectedLinesEmitNothing ==
    [][LineProcessed =>
          LET l == texts_with_confidence[ti]
          IN /\ Rejected(l) => items' = items
             /\ (/\ l[2] = min_confidence * ConfDen
                 /\ FitsPattern(l)
                 /\ ~LineRaises(l, inventory_items))
                => Len(items') = Len(items) + 1]_vars

\* a line of confidence 0.24 and a line of one character skipped, the line
\* of confidence 0.25 the only one to give an item
C19_FilteredLinesWitness ==
    /\ ex_pc = "done"
    /\ Len(texts_with_confidence) = 3
    /\ \E a, b, c \in 1..3 :
          /\ texts_with_confidence[a][2] < min_confidence * ConfDen
          /\ Len(Strip(Lower(texts_with_confidence[b][1]))) < 2
          /\ texts_with_confidence[c][2] = min_confidence * ConfDen
    /\ Len(items) = 1
    /\ items[1].confidence = min_confidence

\* the unit token passed through the abbreviation map
Normalized(unit_part) ==
    IF unit_part \in unit_mapping_keys THEN unit_mapping(unit_part) ELSE unit_part

\* C20: the unit of an item a step of the loop appends is no key of the
\* abbreviation map, and if the winning pattern of the line captured a
\* unit token it is that token passed through the map.
C20_CapturedUnitNormalized ==
    [][(LineProcessed /\ Len(items') = Len(items) + 1) =>
          LET mt == FirstPattern(1, CleanLine(Strip(Lower(texts_with_confidence[ti][1]))))
              emitted == items'[Len(items')].unit
          IN /\ emitted \notin unit_mapping_keys
             /\ Val(mt)[2] # "" => emitted = Normalized(Val(mt)[2])]_vars

--------------------------------------------------------------------------
(* Properties of the selection among the catalog entries *)

\* the position of an entry in a catalog without repeated entries
PositionOf(item, inv) == CHOOSE k \in 1..Len(inv) : inv[k] = item

\* max_similarity of the entry at position j for the name being matched
ScoreOf(j) == ItemScores(extracted_name, fm_inventory_items[j]).max_similarity

\* name_part of the line at ti
NamePartAt(i) ==
    Val(FirstPattern(1, CleanLine(Strip(Lower(texts_with_confidence[i][1])))))[1]

\* a step of the loop of extract_items_from_text that appends a matched item
MatchedItemAppended ==
    LineProcessed /\ Len(items') = Len(items) + 1 /\ inventory_items # <<>>

\* the entry of the appended item is at the first position of least distance
ClosestIsFirstOfLeast ==
    \E k \in 1..Len(inventory_items) :
        /\ Get(inventory_items[k].id, "") = Val(items'[Len(items')].fuzzy_match).inventory_id
        /\ \A j \in 1..(k - 1) :
              Distance(NamePartAt(ti), inventory_items[j])
                  > Distance(NamePartAt(ti), inventory_items[k])
        /\ \A j \in (k + 1)..Len(inventory_items) :
              Distance(NamePartAt(ti), inventory_items[j])
                  >= Distance(NamePartAt(ti), inventory_items[k])

\* a step of the loop of fuzzy_match_inventory_item over the entry at fi
EntryScored == fm_pc = "loop" /\ fi' = fi + 1

\* best_match is the first of the entries seen so far that has its score
BestIsFirstOfHighest ==
    ~IsNone(best_match') =>
        LET k == PositionOf(Val(best_match').inventory_item, fm_inventory_items)
        IN /\ k <= fi
           /\ \A j \in 1..(k - 1) : FloatLT(ScoreOf(j), ScoreOf(k))
           /\ \A j \in (k + 1)..fi : FloatLE(ScoreOf(j), ScoreOf(k))

\* C21: among the catalog entries of the same best score both matchers
\* keep the one that comes first in the catalog: the Levenshtein selection
\* takes the first entry of least distance, and fuzzy_match_inventory_item
\* replaces its best match only by an entry that scores strictly better,
\* so that the best match is always the first entry of the highest score.
C21_FirstBestWins ==
    [][/\ MatchedItemAppended => ClosestIsFirstOfLeast
       /\ EntryScored =>
             /\ best_match' # best_match => FloatLT(best_score, ScoreOf(fi))
             /\ BestIsFirstOfHighest]_vars

\* 'amul milk' is at the same distance from MILK and from Milk, and the
\* item appended for it is the one of MILK, the first of the two
C21_EqualDistanceWitness ==
    /\ inventory_items = <<EntryMilkUpper, EntryMilk, EntryToorDal>>
    /\ ex_pc = "done"
    /\ texts_with_confidence # <<>>
    /\ texts_with_confidence[1][1] = "amul milk"
    /\ Distance("amul milk", EntryMilkUpper) = Distance("amul milk", EntryMilk)
    /\ Distance("amul milk", EntryMilk) < Distance("amul milk", EntryToorDal)
    /\ items # <<>>
    /\ Val(items[1].fuzzy_match).inventory_id = "id5"

\* twice levenshtein(candidate, field) + 0.5 * |len(candidate) - len(field)|
TwicePenalized(name_part, entry) ==
    2 * Distance(name_part, entry) + Abs(Len(name_part) - Len(entry.itemName))

\* C22: the entry of an appended matched item is one of least penalized
\* distance levenshtein + 0.5 * |difference of the lengths| among the
\* entries of the catalog, and the similarity reported for it is
\* 1 - levenshtein / max(len(candidate), len(field)), without the penalty.
C22_PenalizedDistanceSelects ==
    [][MatchedItemAppended =>
         \E k \in 1..Len(inventory_items) :
             LET emitted == Val(items'[Len(items')].fuzzy_match)
             IN /\ Get(inventory_items[k].id, "") = emitted.inventory_id
                /\ \A j \in 1..Len(inventory_items) :
                      TwicePenalized(NamePartAt(ti), inventory_items[k])
                          <= TwicePenalized(NamePartAt(ti), inventory_items[j])
                /\ emitted.similarity_score
                      = SimilarityScore(NamePartAt(ti), inventory_items[k])]_vars

\* the fields of an entry the matcher considers, with the text compared
ConsideredFields(item) ==
    LET item_name == Get(item.itemName, "")
        brand == Get(item.brand, "")
        category == Get(item.category, "")
    IN {<<"name", item_name>>}
       \cup (IF brand # "" /\ brand # "NA"
             THEN {<<"brand_name", brand \o " " \o item_name>>} ELSE {})
       \cup (IF category # ""
             THEN {<<"category_name", category \o " " \o item_name>>} ELSE {})

\* C23: the score of the returned entry is the highest of the scores of
\* the name against the fields considered (itemName; brand + ' ' + itemName
\* when brand is not empty and not 'NA'; category + ' ' + itemName when
\* category is not empty), and matched_field names a considered field that
\* has this score.
C23_MatchedFieldHasMaximum ==
    (fm_pc \in {"loop", "done"} /\ ~IsNone(best_match)) =>
        LET bm == Val(best_match)
            fields == ConsideredFields(bm.inventory_item)
        IN /\ \A f \in fields :
                 FloatLE(calculate_similarity(extracted_name, f[2]), bm.similarity_score)
           /\ \E f \in fields :
                 /\ f[1] = bm.matched_field
                 /\ calculate_similarity(extracted_name, f[2]) = bm.similarity_score

\* 'dairy mlk' is nearer to 'Dairy Milk', category and name of the entry
\* Milk, than to its name or to its brand and name
C23_CategoryWinsWitness ==
    /\ fm_pc = "done"
    /\ extracted_name = "dairy mlk"
    /\ ~IsNone(best_match)
    /\ Val(best_match).inventory_item = EntryMilk
    /\ Val(best_match).matched_field = "category_name"
    /\ FloatLT(calculate_similarity("dairy mlk", "Milk"), Val(best_match).similarity_score)
    /\ FloatLT(calculate_similarity("dairy mlk", "Amul Milk"), Val(best_match).similarity_score)

\* C24: every similarity score reported lies in [0, 1]: the similarity_score
\* of a matched item of extract_items_from_text, in thousandths, and the
\* scores fuzzy_match_inventory_item keeps and returns.
C24_ScoresInUnitInterval ==
    /\ \A k \in 1..Len(items) :
          ~IsNone(items[k].fuzzy_match) =>
              /\ Val(items[k].fuzzy_match).similarity_score >= 0
              /\ Val(items[k].fuzzy_match).similarity_score <= 1000
    /\ FloatLE(FloatZero, best_score) /\ FloatLE(best_score, FloatOne)
    /\ ~IsNone(best_match) =>
          /\ FloatLE(FloatZero, Val(best_match).similarity_score)
          /\ FloatLE(Val(best_match).similarity_score, FloatOne)

--------------------------------------------------------------------------
(* Properties of levenshtein_distance *)

\* the least number of insertions, deletions and substitutions of single
\* characters that turn a into b: the first characters are matched or
\* substituted, or the first character of a is deleted, or the first
\* character of b is inserted
RECURSIVE EditDistance(_, _)
EditDistance(a, b) ==
    IF a = "" THEN Len(b)
    ELSE IF b = "" THEN Len(a)
    ELSE Min2(EditDistance(Tail(a), Tail(b)) + (IF Head(a) = Head(b) THEN 0 ELSE 1),
              Min2(EditDistance(Tail(a), b) + 1, EditDistance(a, Tail(b)) + 1))

\* C25: levenshtein_distance(s1, s2) is the edit distance of s1 and s2, for
\* empty strings too, and levenshtein_distance(s2, s1) is the same number.
C25_EditDistanceSymmetric ==
    /\ ~IsNone(lv_forward) => Val(lv_forward) = EditDistance(lv_s1, lv_s2)
    /\ ~IsNone(lv_backward) => Val(lv_backward) = EditDistance(lv_s2, lv_s1)
    /\ (~IsNone(lv_forward) /\ ~IsNone(lv_backward)) => Val(lv_forward) = Val(lv_backward)

\* the shorter string first, one of each kind of edit needed
C25_ShorterFirstWitness ==
    /\ lv_s1 = "ab"
    /\ lv_s2 = "cbc"
    /\ lv_forward = Some(2)
    /\ lv_backward = Some(2)

--------------------------------------------------------------------------
(* Properties of generate_unique_kirana_id *)

\* C26: the value generate_unique_kirana_id returns, from the loop or from
\* the fallback after 100 collisions, is an integer of 100000..999999 that
\* no document of the collection has as kiranaId, and validate_kirana_id
\* accepts it.
C26_ReturnedIdUniqueAndValid ==
    ki_pc = "done" =>
        /\ Val(ki_returned) \in 100000..999999
        /\ Val(ki_returned) \notin ki_collection
        /\ validate_kirana_id(Val(ki_returned))


--------------------------------------------------------------------------
(* create_bill: what a request leaves in the collections *)

\* the units of product i on the lines of a request
RECURSIVE Billed(_, _)
Billed(lines_, i) ==
    IF lines_ = <<>> THEN 0
    ELSE (IF Head(lines_).item_id = i THEN Head(lines_).quantity ELSE 0)
         + Billed(Tail(lines_), i)

\* request p gets its response in this step
BillAnswered(p, statuses) ==
    /\ cb[p].status = 0
    /\ cb'[p].status \in statuses

\* this step writes nothing to the inventory quantities, the loyalty
\* points and the bills
NothingWritten ==
    /\ stockQuantity' = stockQuantity
    /\ loyalty_points' = loyalty_points
    /\ bills' = bills

\* this step writes all of request p: every line's units leave the stock,
\* the customer's points are set and the bill is stored
AllWritten(p) ==
    /\ \A i \in ProductIds :
           stockQuantity'[i] = stockQuantity[i] - Billed(cb[p].items, i)
    /\ \A c \in CustomerIds :
           loyalty_points'[c] =
               IF cb[p].customer_id = Some(c)
               THEN Val(cb[p].customer_info) - cb[p].loyalty_points_used
                        + (cb[p].total_amount \div 20)
               ELSE loyalty_points[c]
    /\ Len(bills') = Len(bills) + 1
    /\ SubSeq(bills', 1, Len(bills)) = bills
    /\ bills'[Len(bills')].items = cb[p].validated_items
    /\ Len(cb[p].validated_items) = Len(cb[p].items)

\* C27: create-bill is all-or-nothing: a step in which a request answers
\* with an error (400, 404 or 500) writes nothing to the stock quantities,
\* the loyalty points and the bills, no step of a request before its answer
\* writes anything, and the step in which a request answers 201 makes all
\* its stock decrements, its loyalty-points update and its bill insert
\* together.
C27_BillAllOrNothing ==
    [][ \/ NothingWritten
        \/ \E p \in BillIds :
              /\ BillAnswered(p, {201})
              /\ AllWritten(p)
              /\ \A q \in BillIds \ {p} : cb'[q] = cb[q] ]_vars

\* a request failed inside the transaction after its first item was
\* updated (the second was deleted meanwhile), and the other request was
\* billed
C27_AbortedAndBilledWitness ==
    \E p \in BillIds, q \in BillIds :
        /\ cb[p].status = 500
        /\ Len(cb[p].validated_items) = 2
        /\ cb[p].validated_items[1].product_id \in products
        /\ cb[p].validated_items[2].product_id \notin products
        /\ cb[q].status = 201
        /\ Len(bills) = 1

\* C28: starting from non-negative stock, every stockQuantity stays >= 0
\* after any interleaving of create-bill requests.
C28_StockNeverNegative ==
    \A i \in ProductIds : stockQuantity[i] >= 0


--------------------------------------------------------------------------
(* save_receipt_items: a rejected request *)

\* C29: when save-receipt-items rejects a request with 400 for an item
\* without name or with a missing or non-positive quantity, no
\* stockQuantity was changed and no receipt document was stored by the
\* request, wherever the invalid item sits in the list.
C29_RejectedReceiptChangesNothing ==
    (sr # <<>> /\ sr.status = 400) =>
        /\ stockQuantity = ReceiptOpeningStock
        /\ receipts = <<>>


--------------------------------------------------------------------------
(* The catalog cache within its TTL *)

\* a fetch was stored less than ttl seconds ago
WithinTTL ==
    /\ ~IsNone(cache)
    /\ tc_now - (Val(tc_expires) - ttl) < ttl

==========================================================================
